---- MODULE Spec2Model ----
(***************************************************************************)
(* Market regime classification engine of bullbear-dashboard               *)
(* (backend/bullbear_backend/state_machine/engine.py, types.py).           *)
(*                                                                         *)
(* Number representation.  The engine computes on Python floats.  The      *)
(* model computes on exact rationals [n |-> numerator, d |-> denominator]  *)
(* in lowest terms.  Series handed to the slope estimator take their       *)
(* positive values on the geometric grid 4, 50, 625 (ratio 12.5), on which *)
(* math.log is exact: log(v) = ln 4 + LogUnits(v) * ln 12.5.  A slope is   *)
(* therefore a rational multiple of 100 * ln 12.5 (%/day) and is kept as   *)
(* that rational; its sign and its being zero are those of the float.      *)
(* On this grid 4/50*100 and 50/625*100 are exactly 8.0 in floats too.     *)
(***************************************************************************)
EXTENDS Integers, Sequences, FiniteSets, TLC

----------------------------------------------------------------------------
(* Bounds of the model *)

\* evaluate() calls in one run of the long (cache) specification
MaxCalls == 35
\* evaluate() calls in one run of the other specifications
MaxEvalCalls == 7
\* how often the upstream caps differ from those of the previous call
MaxChanges == 1
\* engine instances constructed in one process
MaxEngines == 2
\* evaluate() calls of one run that fail to obtain a required scalar
MaxFailures == 1
\* callers that are inside evaluate() at the same time
MaxThreads == 2
\* values in a series handed to the slope estimator on its own
MaxSeriesLen == 3

----------------------------------------------------------------------------
(* Program constants *)

\* engine.py:34  _max_history_size = 30
MaxHistorySize == 30
\* engine.py:412  min_history_days = 7
MinHistoryDays == 7
\* engine.py:247  periods: int = 10 (also min(10, len) at 423, 427, 433, 434)
SlopePeriods == 10
\* engine.py:479  threshold = 8.0
Threshold == 8

----------------------------------------------------------------------------
(* Exact rational arithmetic standing for float arithmetic *)
(* CHOOSE r \in { F(x) : x \in {e} } : TRUE  is  F(e)  with e evaluated     *)
(* once: x is bound to the value of e.                                      *)

Abs(x) == IF x < 0 THEN -x ELSE x

Min(a, b) == IF a < b THEN a ELSE b

RECURSIVE GCD(_, _)
GCD(a, b) ==
    IF b = 0 THEN a
    ELSE CHOOSE g \in { GCD(y, x % y) : x \in {a}, y \in {b} } : TRUE

\* x/y in lowest terms with a positive denominator, g = gcd(|x|, |y|)
RatOf(x, y, g) == [n |-> (IF y < 0 THEN -x ELSE x) \div g, d |-> Abs(y) \div g]

Rat(n, d) ==
    CHOOSE r \in { RatOf(x, y, GCD(Abs(x), Abs(y))) : x \in {n}, y \in {d} } : TRUE

Zero == [n |-> 0, d |-> 1]
One == [n |-> 1, d |-> 1]
RInt(i) == [n |-> i, d |-> 1]
RAdd(a, b) ==
    CHOOSE r \in { Rat(x.n * y.d + y.n * x.d, x.d * y.d) : x \in {a}, y \in {b} } : TRUE
RSub(a, b) ==
    CHOOSE r \in { Rat(x.n * y.d - y.n * x.d, x.d * y.d) : x \in {a}, y \in {b} } : TRUE
RMul(a, b) ==
    CHOOSE r \in { Rat(x.n * y.n, x.d * y.d) : x \in {a}, y \in {b} } : TRUE
RLt(a, b) == \E x \in {a}, y \in {b} : x.n * y.d < y.n * x.d
RAbs(a) == CHOOSE r \in { [n |-> Abs(x.n), d |-> x.d] : x \in {a} } : TRUE
RMin(a, b) ==
    CHOOSE r \in { IF y.n * x.d < x.n * y.d THEN y ELSE x : x \in {a}, y \in {b} } : TRUE

----------------------------------------------------------------------------
(* Sequence helpers (Python list operations) *)

\* values[-k:] for 1 <= k <= len(values)
LastN(s, k) == SubSeq(s, Len(s) - k + 1, Len(s))

\* values[-k:] as Python evaluates it: values[-0:] is the whole list, and for
\* k < 0 it is values[|k|:], the list without its first |k| values
PySuffix(s, k) ==
    IF k = 0 THEN s
    ELSE IF k < 0 THEN SubSeq(s, 1 - k, Len(s))
    ELSE LastN(s, Min(k, Len(s)))

IsPositive(v) == v > 0
IsNegative(v) == v < 0

\* [v for v in s if v > 0]
Positive(s) == SelectSeq(s, IsPositive)

RECURSIVE SumUpTo(_, _)
SumUpTo(f, k) == IF k = 0 THEN 0 ELSE f[k] + SumUpTo(f, k - 1)

\* sum(s)
SumSeq(s) == CHOOSE r \in { SumUpTo(f, Len(f)) : f \in {s} } : TRUE

\* max(s), s not empty
MaxSeq(s) ==
    CHOOSE m \in UNION { { f[i] : i \in DOMAIN f } : f \in {s} } :
        \A g \in {s} : \A i \in DOMAIN g : g[i] <= m

\* a list of k copies of v
Rep(v, k) == [i \in 1..k |-> v]

----------------------------------------------------------------------------
(* SlopeEstimator: StateMachineEngine._calculate_slope *)

\* math.log on the grid, in units of ln 12.5 above ln 4
RECURSIVE LogUnits(_)
LogUnits(v) == IF v <= 4 THEN 0 ELSE 1 + LogUnits((2 * v) \div 25)

\* a faulty variant: the day index counted back from the newest value
RegressionOfLogsNewestFirst(logs, S) ==
    LET n == Len(logs)
        num2 == SumSeq([i \in 1..n |-> ((n - 1) - 2 * (i - 1)) * (n * logs[i] - S)])
        den2 == SumSeq([i \in 1..n |-> (2 * (i - 1) - (n - 1)) * (2 * (i - 1) - (n - 1))])
    IN  IF den2 = 0 THEN Zero ELSE Rat(2 * num2, n * den2)

\* lines 293-314 on the log values: numerator/denominator, in units of
\* 100 * ln 12.5 per day.  With x_mean = (n-1)/2 and log_y_mean = S/n,
\* numerator = num2/(2n) and denominator = den2/4.
RegressionOfLogs(logs, S) ==
    LET n == Len(logs)
        num2 == SumSeq([i \in 1..n |-> (2 * (i - 1) - (n - 1)) * (n * logs[i] - S)])
        den2 == SumSeq([i \in 1..n |-> (2 * (i - 1) - (n - 1)) * (2 * (i - 1) - (n - 1))])
    IN  IF den2 = 0 THEN Zero ELSE Rat(2 * num2, n * den2)

\* lines 285-314; math.log of a value that is not positive raises the
\* ValueError caught at line 288
Regression(recent) ==
    IF \E i \in DOMAIN recent : recent[i] <= 0 THEN Zero
    ELSE CHOOSE r \in
        UNION { { RegressionOfLogs(logs, S) : S \in {SumSeq(logs)} } :
                logs \in { [i \in 1..Len(recent) |-> LogUnits(recent[i])] } } : TRUE

\* lines 276-283: with fewer than `periods` valid values the regression runs
\* on the valid ones, unless fewer than 2 remain
SlopeOfRecent(recent, valid, periods) ==
    IF Len(valid) < periods
    THEN IF Len(valid) < 2 THEN Zero ELSE Regression(valid)
    ELSE Regression(recent)

\* how the call ends: line 295 divides by n = len(log_values) outside any try
\* block, and n is 0 when the window values[-periods:] is empty and passes the
\* test of line 277 (periods <= 0)
CalculateSlopeOutcome(values, periods) ==
    IF /\ Len(values) >= periods
       /\ Len(Positive(PySuffix(values, periods))) >= periods
       /\ PySuffix(values, periods) = << >>
    THEN "ZeroDivisionError" ELSE "ok"

\* the value returned when the call returns
CalculateSlope(values, periods) ==
    IF Len(values) < periods THEN Zero
    ELSE CHOOSE r \in
             UNION { { SlopeOfRecent(recent, valid, periods) : valid \in {Positive(recent)} } :
                     recent \in {PySuffix(values, periods)} } : TRUE

----------------------------------------------------------------------------
(* types.py: enumerations, written with their member names *)

TrendDirection == {"BULLISH", "BEARISH"}
FundingBehavior == {"OFFENSIVE", "DEFENSIVE"}
MarketState == {"BULL_OFFENSIVE", "BULL_DEFENSIVE", "BEAR_OFFENSIVE", "BEAR_DEFENSIVE"}

\* types.py:33-48: the fields of the ValidationLayer dataclass; none has a default
ValidationLayerFields ==
    {"risk_thermometer", "ath_drawdown", "ath_price", "etf_accelerator",
     "etf_net_flow", "etf_aum", "etf_flow_14d_sum", "etf_flow_pos_ratio",
     "etf_flow_recent_avg", "etf_flow_prev_avg", "etf_flow_trend", "etf_aum_trend"}

\* engine.py:130-136: the keyword arguments evaluate() passes to ValidationLayer
ValidationLayerArgs ==
    {"risk_thermometer", "ath_drawdown", "etf_accelerator", "etf_net_flow", "etf_aum"}

\* the dataclass __init__: a required field without an argument is a TypeError
ConstructValidationLayer ==
    IF ValidationLayerFields \subseteq ValidationLayerArgs THEN "ok" ELSE "TypeError"

----------------------------------------------------------------------------
(* TrendClassifier: StateMachineEngine._determine_trend_with_slope *)

\* a faulty variant: the first rule taken with price >= MA200
TrendRuleAtOrAbove(btc_price, ma200, ma200_slope) ==
    IF btc_price >= ma200 /\ ma200_slope.n >= 0 THEN "BULLISH"
    ELSE IF btc_price < ma200 /\ ma200_slope.n < 0 THEN "BEARISH"
    ELSE IF btc_price > ma200 THEN "BULLISH"
    ELSE "BEARISH"

\* a faulty variant: a price above a falling MA200 taken as bearish
TrendRuleFollowingSlope(btc_price, ma200, ma200_slope) ==
    IF btc_price > ma200 /\ ma200_slope.n >= 0 THEN "BULLISH"
    ELSE "BEARISH"

\* lines 360-382: the rules, on the slope computed above them
TrendRule(btc_price, ma200, ma200_slope) ==
    IF btc_price > ma200 /\ ma200_slope.n >= 0 THEN "BULLISH"
    ELSE IF btc_price < ma200 /\ ma200_slope.n < 0 THEN "BEARISH"
    ELSE IF btc_price > ma200 THEN "BULLISH"
    ELSE "BEARISH"

\* lines 341-358: a slope needs 10 historical values, else it is 0.0
HistorySlope(history) ==
    IF Len(history) >= 10 THEN CalculateSlope(history, SlopePeriods) ELSE Zero

DetermineTrendWithSlope(btc_price, ma50, ma200, historical_data) ==
    CHOOSE r \in
        { [trend |-> TrendRule(btc_price, ma200, ma200_slope),
           ma50_slope |-> ma50_slope, ma200_slope |-> ma200_slope] :
              ma50_slope \in {HistorySlope(historical_data.ma50)},
              ma200_slope \in {HistorySlope(historical_data.ma200)} } : TRUE

----------------------------------------------------------------------------
(* FundingClassifier: StateMachineEngine._determine_funding *)

\* historical_market_data: None, or the provider's dict with the values
\* (item[1]) of its two lists
NoMarketData == [present |-> FALSE, stable |-> << >>, total |-> << >>]

\* line 408
StablecoinRatio(stablecoin_market_cap, total_market_cap) ==
    Rat(stablecoin_market_cap * 100, total_market_cap)

\* lines 418-428: a slope from the external history, which needs `least` points
ExternalSlope(present, history, least) ==
    IF present /\ Len(history) >= least
    THEN CalculateSlope(history, Min(10, Len(history))) ELSE Zero

\* a faulty variant: the cache used from 6 stablecoin values on
CacheFallbackFromSix(ext_s, ext_t, cacheStable, cacheTotal) ==
    IF ext_s = Zero /\ ext_t = Zero /\ Len(cacheStable) >= 6
    THEN [stablecoin_slope |-> CalculateSlope(cacheStable, Min(10, Len(cacheStable))),
          total_slope |-> CalculateSlope(cacheTotal, Min(10, Len(cacheTotal))),
          source |-> "cache"]
    ELSE [stablecoin_slope |-> ext_s, total_slope |-> ext_t, source |-> "external"]

\* lines 430-435: the cache is used when both external slopes are 0.0 and the
\* cache holds 7 stablecoin values
CacheFallback(ext_s, ext_t, cacheStable, cacheTotal) ==
    IF ext_s = Zero /\ ext_t = Zero /\ Len(cacheStable) >= MinHistoryDays
    THEN [stablecoin_slope |-> CalculateSlope(cacheStable, Min(10, Len(cacheStable))),
          total_slope |-> CalculateSlope(cacheTotal, Min(10, Len(cacheTotal))),
          source |-> "cache"]
    ELSE [stablecoin_slope |-> ext_s, total_slope |-> ext_t, source |-> "external"]

\* lines 414-435: the two slopes the classification uses, and where they come from
FundingSlopes(hmd, cacheStable, cacheTotal) ==
    CHOOSE r \in
        { CacheFallback(ext_s, ext_t, cacheStable, cacheTotal) :
              ext_s \in {ExternalSlope(hmd.present, hmd.stable, 7)},
              ext_t \in {ExternalSlope(hmd.present, hmd.total, 7)} } : TRUE

\* a faulty variant: a rising stablecoin cap alone read as defensive, a falling
\* one as offensive
SlopeTableByStablecoin(stablecoin_slope, total_slope) ==
    IF stablecoin_slope.n > 0 THEN "DEFENSIVE" ELSE "OFFENSIVE"

\* a faulty variant: defensive only when both caps fall
SlopeTableDefensiveWhenBothFall(stablecoin_slope, total_slope) ==
    IF stablecoin_slope.n > 0 \/ total_slope.n > 0 THEN "OFFENSIVE" ELSE "DEFENSIVE"

\* lines 437-459: the four combination patterns
SlopeTable(stablecoin_slope, total_slope) ==
    LET stablecoin_trend == IF stablecoin_slope.n > 0 THEN "up" ELSE "down"
        total_trend == IF total_slope.n > 0 THEN "up" ELSE "down"
    IN  IF stablecoin_trend = "up" /\ total_trend = "up" THEN "OFFENSIVE"
        ELSE IF stablecoin_trend = "down" /\ total_trend = "up" THEN "OFFENSIVE"
        ELSE IF stablecoin_trend = "up" /\ total_trend = "down" THEN "DEFENSIVE"
        ELSE "DEFENSIVE"

\* a faulty variant: a ratio of exactly the threshold read as offensive
RatioFallbackInclusive(stablecoin_ratio) ==
    IF RLt(RInt(Threshold), stablecoin_ratio) THEN "DEFENSIVE" ELSE "OFFENSIVE"

\* lines 485-490: the ratio against the fixed threshold
RatioFallback(stablecoin_ratio) ==
    IF RLt(stablecoin_ratio, RInt(Threshold)) THEN "OFFENSIVE" ELSE "DEFENSIVE"

\* lines 461-474: the changes reported on the slope path
SlopePathChanges(stablecoin_market_cap, total_market_cap, stablecoin_ratio, hmd, cacheStable, cacheTotal) ==
    IF hmd.present /\ hmd.stable # << >>
    THEN LET first_stablecoin == hmd.stable[1]
             first_total == IF hmd.total # << >> THEN hmd.total[1] ELSE total_market_cap
             first_ratio == IF first_total > 0
                            THEN Rat(first_stablecoin * 100, first_total)
                            ELSE stablecoin_ratio
         IN  [stablecoin_change |-> stablecoin_market_cap - first_stablecoin,
              stablecoin_ratio_change |-> RSub(stablecoin_ratio, first_ratio)]
    ELSE IF cacheStable # << >>
    THEN [stablecoin_change |-> stablecoin_market_cap - cacheStable[1],
          stablecoin_ratio_change |->
              RSub(stablecoin_ratio,
                   IF cacheTotal # << >> /\ cacheTotal[1] > 0
                   THEN Rat(cacheStable[1] * 100, cacheTotal[1])
                   ELSE stablecoin_ratio)]
    ELSE [stablecoin_change |-> 0, stablecoin_ratio_change |-> Zero]

\* lines 437-492, on the ratio of line 408 and the slopes of lines 414-435;
\* sl, the two slopes local to the function and their source, is kept beside
\* the three values it returns
FundingOf(stablecoin_market_cap, total_market_cap, stablecoin_ratio, sl, hmd, cacheStable, cacheTotal) ==
    IF sl.stablecoin_slope # Zero \/ sl.total_slope # Zero
    THEN CHOOSE r \in
             { [funding |-> SlopeTable(sl.stablecoin_slope, sl.total_slope),
                path |-> "slopes",
                stablecoin_change |-> c.stablecoin_change,
                stablecoin_ratio_change |-> c.stablecoin_ratio_change, sl |-> sl] :
                   c \in { SlopePathChanges(stablecoin_market_cap, total_market_cap,
                               stablecoin_ratio, hmd, cacheStable, cacheTotal) } } : TRUE
    ELSE [funding |-> RatioFallback(stablecoin_ratio), path |-> "ratio",
          stablecoin_change |-> stablecoin_market_cap,
          stablecoin_ratio_change |-> RSub(stablecoin_ratio, RInt(Threshold)), sl |-> sl]

DetermineFunding(stablecoin_market_cap, total_market_cap, hmd, cacheStable, cacheTotal) ==
    CHOOSE r \in
        { FundingOf(stablecoin_market_cap, total_market_cap, stablecoin_ratio, sl, hmd,
                    cacheStable, cacheTotal) :
              stablecoin_ratio \in {StablecoinRatio(stablecoin_market_cap, total_market_cap)},
              sl \in {FundingSlopes(hmd, cacheStable, cacheTotal)} } : TRUE

\* evaluate(), lines 97-110: a slope still 0.0 is taken from the cache when the
\* cache list holds 7 values
MetadataFallback(ext_slope, cache) ==
    IF ext_slope = Zero /\ Len(cache) >= 7
    THEN CalculateSlope(cache, Min(10, Len(cache))) ELSE ext_slope

\* evaluate(), lines 79-110: the slopes reported in the metadata
MetadataSlopes(hmd, cacheStable, cacheTotal) ==
    CHOOSE r \in
        { [stablecoin_slope |-> MetadataFallback(ext_s, cacheStable),
           total_slope |-> MetadataFallback(ext_t, cacheTotal)] :
              ext_s \in {ExternalSlope(hmd.present, hmd.stable, 10)},
              ext_t \in {ExternalSlope(hmd.present, hmd.total, 10)} } : TRUE

----------------------------------------------------------------------------
(* RiskThermometer: StateMachineEngine._calculate_risk_thermometer *)
(* labels: normal = 正常体温, mild_fever = 低/中烧, high_fever = 高烧威胁,      *)
(* critical = 生命体征极差                                                    *)

\* a faulty variant: every boundary belongs to the bucket below it
BucketUpperInclusive(drawdown) ==
    IF ~RLt(RInt(20), drawdown) THEN "normal"
    ELSE IF ~RLt(RInt(35), drawdown) THEN "mild_fever"
    ELSE IF ~RLt(RInt(60), drawdown) THEN "high_fever"
    ELSE "critical"

\* lines 536-544
Bucket(drawdown) ==
    IF RLt(drawdown, RInt(20)) THEN "normal"
    ELSE IF RLt(drawdown, RInt(35)) THEN "mild_fever"
    ELSE IF RLt(drawdown, RInt(60)) THEN "high_fever"
    ELSE "critical"

\* a faulty variant: the drawdown returned as computed, without line 533
ThermometerOfUnclamped(btc_price, ath) ==
    IF ath = 0 THEN [ath_drawdown |-> Zero, risk_thermometer |-> "normal"]
    ELSE CHOOSE r \in
             { [ath_drawdown |-> drawdown,
                risk_thermometer |-> IF drawdown.n <= 0 THEN "normal" ELSE Bucket(drawdown)] :
                   drawdown \in {Rat((ath - btc_price) * 100, ath)} } : TRUE

\* lines 525-544
ThermometerOf(btc_price, ath) ==
    IF ath = 0 THEN [ath_drawdown |-> Zero, risk_thermometer |-> "normal"]
    ELSE CHOOSE r \in
             { IF drawdown.n <= 0
               THEN [ath_drawdown |-> Zero, risk_thermometer |-> "normal"]
               ELSE [ath_drawdown |-> drawdown, risk_thermometer |-> Bucket(drawdown)] :
                   drawdown \in {Rat((ath - btc_price) * 100, ath)} } : TRUE

CalculateRiskThermometer(btc_price, historical_data) ==
    CHOOSE r \in
        { ThermometerOf(btc_price, ath) :
              ath \in { IF historical_data.prices = << >> THEN btc_price
                        ELSE MaxSeq(historical_data.prices \o << btc_price >>) } } : TRUE

----------------------------------------------------------------------------
(* EtfAccelerator: StateMachineEngine._calculate_etf_accelerator *)
(* statuses: tailwind = 顺风, headwind = 逆风, neutral = 钝化, unknown = 未知;    *)
(* flows are in millions of dollars, so the $10M threshold (10_000_000) is 10 *)

\* an optional float: None, or a value
None == [some |-> FALSE, v |-> 0]
Some(x) == [some |-> TRUE, v |-> x]

\* sum(1 for day in history if day['net_flow'] > 0) and its mirror
CountPos(s) == Len(SelectSeq(s, IsPositive))
CountNeg(s) == Len(SelectSeq(s, IsNegative))

\* a faulty variant: a flow of exactly $10M read as neutral
SingleDayStatusInclusive(net_flow) ==
    IF Abs(net_flow) <= 10 THEN "neutral"
    ELSE IF net_flow > 0 THEN "tailwind"
    ELSE "headwind"

\* lines 576-581: the status from the current day's flow alone
SingleDayStatus(net_flow) ==
    IF Abs(net_flow) < 10 THEN "neutral"
    ELSE IF net_flow > 0 THEN "tailwind"
    ELSE "headwind"

\* a faulty variant: a trend confirmed only by a current day of the same sign
EtfRuleCurrentDayFirst(net_flow, total_days, positive_days, negative_days, total_flow, recent_flows, first_sum, first_len, second_sum, second_len) ==
    IF /\ net_flow > 0
       /\ positive_days >= 14
       /\ positive_days * 10 >= 7 * total_days
       /\ (CountPos(recent_flows) = Len(recent_flows) \/ SumSeq(recent_flows) > 0)
    THEN "tailwind"
    ELSE IF /\ net_flow < 0
            /\ negative_days >= 14
            /\ negative_days * 10 >= 7 * total_days
            /\ (CountNeg(recent_flows) = Len(recent_flows) \/ SumSeq(recent_flows) < 0)
    THEN "headwind"
    ELSE IF /\ total_days >= 14
            /\ first_sum < 0
            /\ second_sum * first_len > first_sum * second_len
            /\ 2 * Abs(second_sum) * first_len < Abs(first_sum) * second_len
    THEN "neutral"
    ELSE IF Abs(total_flow) < 10 * total_days THEN "neutral"
    ELSE IF net_flow > 0 THEN "tailwind"
    ELSE "headwind"

\* a faulty variant: without the near-zero rule of line 635
EtfRuleWithoutNearZero(net_flow, total_days, positive_days, negative_days, total_flow, recent_flows, first_sum, first_len, second_sum, second_len) ==
    IF /\ positive_days >= 14
       /\ positive_days * 10 >= 7 * total_days
       /\ (CountPos(recent_flows) = Len(recent_flows) \/ SumSeq(recent_flows) > 0)
    THEN "tailwind"
    ELSE IF /\ negative_days >= 14
            /\ negative_days * 10 >= 7 * total_days
            /\ (CountNeg(recent_flows) = Len(recent_flows) \/ SumSeq(recent_flows) < 0)
    THEN "headwind"
    ELSE IF /\ total_days >= 14
            /\ first_sum < 0
            /\ second_sum * first_len > first_sum * second_len
            /\ 2 * Abs(second_sum) * first_len < Abs(first_sum) * second_len
    THEN "neutral"
    ELSE IF net_flow > 0 THEN "tailwind"
    ELSE "headwind"

\* a faulty variant: without the deceleration rule of lines 619-631
EtfRuleWithoutDeceleration(net_flow, total_days, positive_days, negative_days, total_flow, recent_flows, first_sum, first_len, second_sum, second_len) ==
    IF /\ positive_days >= 14
       /\ positive_days * 10 >= 7 * total_days
       /\ (CountPos(recent_flows) = Len(recent_flows) \/ SumSeq(recent_flows) > 0)
    THEN "tailwind"
    ELSE IF /\ negative_days >= 14
            /\ negative_days * 10 >= 7 * total_days
            /\ (CountNeg(recent_flows) = Len(recent_flows) \/ SumSeq(recent_flows) < 0)
    THEN "headwind"
    ELSE IF Abs(total_flow) < 10 * total_days THEN "neutral"
    ELSE IF net_flow > 0 THEN "tailwind"
    ELSE "headwind"

\* lines 599-646 on the figures of lines 587-592, 602, 621-626
EtfRule(net_flow, total_days, positive_days, negative_days, total_flow, recent_flows, first_sum, first_len, second_sum, second_len) ==
    IF /\ positive_days >= 14
       /\ positive_days * 10 >= 7 * total_days
       /\ (CountPos(recent_flows) = Len(recent_flows) \/ SumSeq(recent_flows) > 0)
    THEN "tailwind"
    ELSE IF /\ negative_days >= 14
            /\ negative_days * 10 >= 7 * total_days
            /\ (CountNeg(recent_flows) = Len(recent_flows) \/ SumSeq(recent_flows) < 0)
    THEN "headwind"
    ELSE IF /\ total_days >= 14
            /\ first_sum < 0
            /\ second_sum * first_len > first_sum * second_len
            /\ 2 * Abs(second_sum) * first_len < Abs(first_sum) * second_len
    THEN "neutral"
    ELSE IF Abs(total_flow) < 10 * total_days THEN "neutral"
    ELSE IF net_flow > 0 THEN "tailwind"
    ELSE "headwind"

\* lines 585-646: the status once net_flow is known and the history has 7 days
EtfTrendStatus(net_flow, history) ==
    CHOOSE r \in
        { EtfRule(net_flow, Len(history), positive_days, negative_days, total_flow,
                  PySuffix(history, 7), first_sum, Len(history) \div 2,
                  total_flow - first_sum, Len(history) - (Len(history) \div 2)) :
              positive_days \in {CountPos(history)},
              negative_days \in {CountNeg(history)},
              total_flow \in {SumSeq(history)},
              first_sum \in {SumSeq(SubSeq(history, 1, Len(history) \div 2))} } : TRUE

\* a faulty variant: the handler giving out what the snapshot had delivered
EtfAcceleratorKeepingSnapshot(etf) ==
    IF etf.fails \in {"provider", "snapshot"}
    THEN [etf_accelerator |-> "unknown", etf_net_flow |-> None, etf_aum |-> None]
    ELSE IF ~etf.net_flow.some
    THEN [etf_accelerator |-> "unknown", etf_net_flow |-> None, etf_aum |-> etf.aum]
    ELSE IF etf.fails = "history" \/ (Len(etf.history) >= 7 /\ etf.malformed)
    THEN [etf_accelerator |-> "unknown", etf_net_flow |-> etf.net_flow, etf_aum |-> etf.aum]
    ELSE IF Len(etf.history) < 7
    THEN [etf_accelerator |-> SingleDayStatus(etf.net_flow.v),
          etf_net_flow |-> etf.net_flow, etf_aum |-> etf.aum]
    ELSE [etf_accelerator |-> EtfTrendStatus(etf.net_flow.v, etf.history),
          etf_net_flow |-> etf.net_flow, etf_aum |-> etf.aum]

\* etf: what the Farside provider does in this call
\*   fails:     "provider" (get_provider raises), "snapshot" (get_etf_data raises),
\*              "history" (get_etf_net_flow_history raises), "none"
\*   net_flow, aum: optional values of the snapshot
\*   history:   the flow history, oldest first; << >> also stands for None
\*   malformed: a record of the history lacks the 'net_flow' key
CalculateEtfAccelerator(etf) ==
    IF etf.fails \in {"provider", "snapshot"}
    THEN [etf_accelerator |-> "unknown", etf_net_flow |-> None, etf_aum |-> None]
    ELSE IF ~etf.net_flow.some
    THEN [etf_accelerator |-> "unknown", etf_net_flow |-> None, etf_aum |-> etf.aum]
    ELSE IF etf.fails = "history"
    THEN [etf_accelerator |-> "unknown", etf_net_flow |-> None, etf_aum |-> None]
    ELSE IF Len(etf.history) < 7
    THEN [etf_accelerator |-> SingleDayStatus(etf.net_flow.v),
          etf_net_flow |-> etf.net_flow, etf_aum |-> etf.aum]
    ELSE IF etf.malformed
    THEN [etf_accelerator |-> "unknown", etf_net_flow |-> None, etf_aum |-> None]
    ELSE [etf_accelerator |-> EtfTrendStatus(etf.net_flow.v, etf.history),
          etf_net_flow |-> etf.net_flow, etf_aum |-> etf.aum]

----------------------------------------------------------------------------
(* RegimeMapper: StateMachineEngine._map_to_state, _get_risk_level *)

\* a faulty variant: the bearish branch without its offensive case
MapToStateBearishDefensive(trend, funding) ==
    IF trend = "BULLISH" /\ funding = "OFFENSIVE" THEN "BULL_OFFENSIVE"
    ELSE IF trend = "BULLISH" /\ funding = "DEFENSIVE" THEN "BULL_DEFENSIVE"
    ELSE "BEAR_DEFENSIVE"

\* engine.py:654-665
MapToState(trend, funding) ==
    IF trend = "BULLISH" /\ funding = "OFFENSIVE" THEN "BULL_OFFENSIVE"
    ELSE IF trend = "BULLISH" /\ funding = "DEFENSIVE" THEN "BULL_DEFENSIVE"
    ELSE IF trend = "BEARISH" /\ funding = "OFFENSIVE" THEN "BEAR_OFFENSIVE"
    ELSE "BEAR_DEFENSIVE"

\* risk_map; a state that is no key of it is a KeyError
risk_map ==
    [s \in MarketState |->
        CASE s = "BULL_OFFENSIVE" -> "HIGH"
          [] s = "BULL_DEFENSIVE" -> "MEDIUM"
          [] s = "BEAR_OFFENSIVE" -> "MEDIUM"
          [] s = "BEAR_DEFENSIVE" -> "LOW"]

GetRiskLevel(state) ==
    IF state \in DOMAIN risk_map THEN risk_map[state] ELSE "KeyError"

----------------------------------------------------------------------------
(* ConfidenceScorer: StateMachineEngine._calculate_confidence *)

\* 100 * ln 12.5 = 252.57..., the %/day of one slope unit, rounded down; every
\* non-zero slope on the grid is far above the 0.5 %/day at which line 698
\* saturates, so the rounding never decides min(1.0, .)
SlopeUnitPercent == Rat(25257, 100)

\* a faulty variant: the MA arrangement guarded against a zero MA200 only
ConfidenceGuardingZeroOnly(btc_price, ma50, ma200, ma50_slope, ma200_slope, stablecoin_ratio_change) ==
    LET ma_arrangement_clear == IF ma200 # 0 THEN Rat(Abs(ma50 - ma200), ma200) ELSE Zero
        slope_strength == RMul(RAdd(RAbs(ma50_slope), RAbs(ma200_slope)), Rat(1, 2))
        slope_confidence ==
            IF slope_strength = Zero THEN Zero
            ELSE RMin(One, RMul(RMul(slope_strength, SlopeUnitPercent), RInt(2)))
        trend_confidence ==
            RMin(One, RAdd(RMul(ma_arrangement_clear, RInt(5)),
                           RMul(slope_confidence, Rat(1, 2))))
        funding_confidence == RMin(One, RMul(RAbs(stablecoin_ratio_change), Rat(1, 8)))
    IN  RMin(One, RMul(RAdd(trend_confidence, funding_confidence), Rat(1, 2)))

CalculateConfidence(btc_price, ma50, ma200, ma50_slope, ma200_slope, stablecoin_ratio_change) ==
    LET ma_arrangement_clear == IF ma200 > 0 THEN Rat(Abs(ma50 - ma200), ma200) ELSE Zero
        slope_strength == RMul(RAdd(RAbs(ma50_slope), RAbs(ma200_slope)), Rat(1, 2))
        slope_confidence ==
            IF slope_strength = Zero THEN Zero
            ELSE RMin(One, RMul(RMul(slope_strength, SlopeUnitPercent), RInt(2)))
        trend_confidence ==
            RMin(One, RAdd(RMul(ma_arrangement_clear, RInt(5)),
                           RMul(slope_confidence, Rat(1, 2))))
        funding_strength == RMul(RAbs(stablecoin_ratio_change), Rat(1, 8))
        funding_confidence == RMin(One, funding_strength)
    IN  RMin(One, RMul(RAdd(trend_confidence, funding_confidence), Rat(1, 2)))

----------------------------------------------------------------------------
(* State *)

VARIABLES
    stableCaps,   \* _historical_stablecoin_caps, per holder of the attribute
    totalCaps,    \* _historical_total_caps, per holder of the attribute
    engines,      \* the StateMachineEngine instances constructed so far
    calls,        \* evaluate() calls started so far
    changes,      \* calls whose caps differed from those of the call before
    log,          \* history: the caps every evaluation handed to the cache, in order
    inp,          \* the upstream data of the last evaluate() call
    res,          \* its outcome and the locals it had computed
    pc,           \* concurrent callers: the line each one is at
    my,           \* concurrent callers: their locals
    stableBy,     \* history: which evaluation appended each stablecoin entry
    totalBy,      \* history: which evaluation appended each total-cap entry
    args,         \* a sub-classifier called on its own: the method and its arguments
    ret           \* what that call returned

vars == << stableCaps, totalCaps, engines, calls, changes, log, inp, res,
           pc, my, stableBy, totalBy, args, ret >>

seqVars == << stableCaps, totalCaps, engines, calls, changes, log, inp, res >>
concVars == << pc, my, stableBy, totalBy >>
partVars == << args, ret >>

\* The holder of the two list attributes: 0 is the class StateMachineEngine,
\* e > 0 the instance e.
EngineIds == 1..MaxEngines
Holders == 0..MaxEngines
ClassHolder == 0

\* a faulty variant: every instance with lists of its own
InstanceHolder(self) == self

\* engine.py:31-33, 42-45: the lists are class attributes and __init__ assigns
\* no attribute of that name, so self._historical_*_caps is the class's list
HolderOf(self) == ClassHolder

\* a faulty variant: the current caps appended twice
UpdateAppendingTwice(cacheStable, cacheTotal, stablecoin_cap, total_cap) ==
    LET s == cacheStable \o << stablecoin_cap, stablecoin_cap >>
        t == cacheTotal \o << total_cap, total_cap >>
    IN  IF Len(s) > MaxHistorySize
        THEN [stable |-> Tail(s), total |-> Tail(t)]
        ELSE [stable |-> s, total |-> t]

\* a faulty variant: the trim taken one entry early (>= for >)
UpdateTrimmingEarly(cacheStable, cacheTotal, stablecoin_cap, total_cap) ==
    LET s == Append(cacheStable, stablecoin_cap)
        t == Append(cacheTotal, total_cap)
    IN  IF Len(s) >= MaxHistorySize
        THEN [stable |-> Tail(s), total |-> Tail(t)]
        ELSE [stable |-> s, total |-> t]

\* engine.py:227-245
UpdateMarketCapHistory(cacheStable, cacheTotal, stablecoin_cap, total_cap) ==
    LET s == Append(cacheStable, stablecoin_cap)
        t == Append(cacheTotal, total_cap)
    IN  IF Len(s) > MaxHistorySize
        THEN [stable |-> Tail(s), total |-> Tail(t)]
        ELSE [stable |-> s, total |-> t]

\* engine.py:169-207: the dict _get_historical_data returns, given what the
\* klines give; any exception gives the empty dict
EmptyHistoricalData == [prices |-> << >>, ma50 |-> << >>, ma200 |-> << >>]
GetHistoricalData(klines) == IF klines.fails THEN EmptyHistoricalData ELSE klines.data

\* engine.py:209-225: the provider's dict when its total list is non-empty,
\* None otherwise (and on any exception)
GetHistoricalMarketCapData(ext) ==
    IF ext.present /\ ext.total # << >> THEN ext ELSE NoMarketData

\* the locals of an evaluate() call that has not computed them
NoLocals ==
    [trend |-> "none", ma50_slope |-> Zero, ma200_slope |-> Zero,
     funding |-> "none", path |-> "none", stablecoin_change |-> 0,
     stablecoin_ratio_change |-> Zero, fund_stablecoin_slope |-> Zero,
     fund_total_slope |-> Zero, fund_source |-> "none",
     stablecoin_slope |-> Zero, total_slope |-> Zero,
     state |-> "none", risk_level |-> "none",
     ath_drawdown |-> Zero, risk_thermometer |-> "none",
     etf_accelerator |-> "none", etf_net_flow |-> None, etf_aum |-> None,
     confidence |-> Zero, stablecoin_ratio |-> Zero,
     readStable |-> << >>, readTotal |-> << >>]

\* engine.py:115-143: the rest of evaluate() on what the classifiers returned
AssembleLocals(in, t, f, m, r, e, state, cacheStable, cacheTotal) ==
    [trend |-> t.trend, ma50_slope |-> t.ma50_slope, ma200_slope |-> t.ma200_slope,
     funding |-> f.funding, path |-> f.path,
     stablecoin_change |-> f.stablecoin_change,
     stablecoin_ratio_change |-> f.stablecoin_ratio_change,
     fund_stablecoin_slope |-> f.sl.stablecoin_slope,
     fund_total_slope |-> f.sl.total_slope, fund_source |-> f.sl.source,
     stablecoin_slope |-> m.stablecoin_slope, total_slope |-> m.total_slope,
     state |-> state, risk_level |-> GetRiskLevel(state),
     ath_drawdown |-> r.ath_drawdown, risk_thermometer |-> r.risk_thermometer,
     etf_accelerator |-> e.etf_accelerator, etf_net_flow |-> e.etf_net_flow,
     etf_aum |-> e.etf_aum,
     confidence |-> IF ConstructValidationLayer = "ok"
                    THEN CalculateConfidence(in.btc_price, in.ma50, in.ma200,
                             t.ma50_slope, t.ma200_slope, f.stablecoin_ratio_change)
                    ELSE Zero,
     stablecoin_ratio |-> IF ConstructValidationLayer = "ok"
                          THEN StablecoinRatio(in.stable, in.total) ELSE Zero,
     readStable |-> cacheStable, readTotal |-> cacheTotal]

\* engine.py:60-143: everything evaluate() computes once the five scalars are
\* there, on the cache as _update_market_cap_history left it.  fund_* are the
\* two slopes local to _determine_funding; readStable/readTotal the cache it read.
EvaluateWith(in, historical_data, hmd, cacheStable, cacheTotal) ==
    CHOOSE loc \in
        { AssembleLocals(in, t, f, m, r, e, MapToState(t.trend, f.funding),
                         cacheStable, cacheTotal) :
              t \in {DetermineTrendWithSlope(in.btc_price, in.ma50, in.ma200, historical_data)},
              f \in {DetermineFunding(in.stable, in.total, hmd, cacheStable, cacheTotal)},
              m \in {MetadataSlopes(hmd, cacheStable, cacheTotal)},
              r \in {CalculateRiskThermometer(in.btc_price, historical_data)},
              e \in {CalculateEtfAccelerator(in.etf)} } : TRUE

EvaluateLocals(in, cacheStable, cacheTotal) ==
    CHOOSE loc \in
        { EvaluateWith(in, historical_data, hmd, cacheStable, cacheTotal) :
              historical_data \in {GetHistoricalData(in.klines)},
              hmd \in {GetHistoricalMarketCapData(in.ext)} } : TRUE

\* a faulty variant: a failed fetch swallowed, the call going on to its end
OutcomeSwallowingFetchFailure(in) == ConstructValidationLayer

\* how evaluate() ends: the exception it raises, or "ok" when it returns.
\* Lines 54-58 stand in no try block, so what DataFetcher.get raises leaves
\* evaluate(); it is named DataUnavailable, as the fetcher's failure is called.
EvaluateOutcome(in) ==
    IF in.fail # 0 THEN "DataUnavailable" ELSE ConstructValidationLayer

----------------------------------------------------------------------------
(* Upstream data the calls draw from *)

\* (stablecoin cap, total cap): ratios 8%, 0.64%, 100%, 8%
CapPairs == { << 4, 50 >>, << 4, 625 >>, << 50, 50 >>, << 50, 625 >> }
CachePairs == { << 4, 50 >>, << 50, 625 >> }

\* (btc_price, ma50, ma200): price above, below and at MA200
PriceTriples == { << 60, 55, 50 >>, << 40, 45, 50 >>, << 50, 50, 50 >> }

\* what get_klines gives: an exception, fewer than 50 closes (no MA history),
\* or enough closes for 10 values of both moving averages
KlinesFail == [fails |-> TRUE, data |-> EmptyHistoricalData]
KlinesShort ==
    [fails |-> FALSE, data |-> [prices |-> << 100, 80 >>, ma50 |-> << >>, ma200 |-> << >>]]
KlinesRising ==
    [fails |-> FALSE,
     data |-> [prices |-> << 40, 50 >>, ma50 |-> Rep(4, 4) \o Rep(50, 6),
               ma200 |-> Rep(4, 5) \o Rep(50, 5)]]
KlinesFalling ==
    [fails |-> FALSE,
     data |-> [prices |-> << 100, 70 >>, ma50 |-> Rep(625, 4) \o Rep(50, 6),
               ma200 |-> Rep(625, 5) \o Rep(50, 5)]]
KlinesCases == { KlinesFail, KlinesShort, KlinesRising, KlinesFalling }

\* what get_historical_market_data gives: nothing, 3 points, 7 points, 10 points
ExtAbsent == NoMarketData
ExtShort == [present |-> TRUE, stable |-> << 4, 4, 50 >>, total |-> << 625, 625, 50 >>]
ExtSeven ==
    [present |-> TRUE, stable |-> Rep(50, 3) \o Rep(4, 4), total |-> Rep(50, 3) \o Rep(625, 4)]
ExtTen ==
    [present |-> TRUE, stable |-> Rep(4, 5) \o Rep(50, 5), total |-> Rep(625, 5) \o Rep(50, 5)]
ExtFlat == [present |-> TRUE, stable |-> Rep(4, 8), total |-> Rep(50, 8)]
ExtCases == { ExtAbsent, ExtShort, ExtSeven, ExtTen, ExtFlat }

\* what the Farside provider gives
EtfProviderFails ==
    [fails |-> "provider", net_flow |-> None, aum |-> None, history |-> << >>,
     malformed |-> FALSE]
EtfNoNetFlow ==
    [fails |-> "none", net_flow |-> None, aum |-> Some(900), history |-> << >>,
     malformed |-> FALSE]
EtfSingleDay ==
    [fails |-> "none", net_flow |-> Some(20), aum |-> Some(900), history |-> << 20, -5 >>,
     malformed |-> FALSE]
EtfCases == { EtfProviderFails, EtfNoNetFlow, EtfSingleDay }

\* the Farside provider raising after get_provider: in get_etf_data, in
\* get_etf_net_flow_history, or handing out 7 records one of which lacks its
\* 'net_flow' key
EtfSnapshotFails ==
    [fails |-> "snapshot", net_flow |-> None, aum |-> None, history |-> << >>,
     malformed |-> FALSE]
EtfHistoryFails ==
    [fails |-> "history", net_flow |-> Some(20), aum |-> Some(900), history |-> << >>,
     malformed |-> FALSE]
EtfMalformed ==
    [fails |-> "none", net_flow |-> Some(20), aum |-> Some(900), history |-> Rep(20, 7),
     malformed |-> TRUE]
EtfFailureCases == { EtfSnapshotFails, EtfHistoryFails, EtfMalformed }

MakeInput(fail, triple, caps, klines, ext, etf) ==
    [self |-> 0, fail |-> fail, btc_price |-> triple[1], ma50 |-> triple[2],
     ma200 |-> triple[3], stable |-> caps[1], total |-> caps[2],
     klines |-> klines, ext |-> ext, etf |-> etf]

BaseTriple == << 60, 55, 50 >>
BaseCaps == << 4, 50 >>

\* a call in which fetching the fail-th scalar raises (1 = BTC price, 2 = MA50,
\* 3 = MA200, 4 = total cap, 5 = stablecoin cap)
FailingInputs ==
    { MakeInput(k, BaseTriple, BaseCaps, KlinesFail, ExtAbsent, EtfProviderFails) : k \in 1..5 }

\* calls whose five scalars are obtained
EvalInputs ==
    { MakeInput(0, t, c, k, ExtAbsent, EtfProviderFails) :
          t \in PriceTriples, c \in CapPairs, k \in KlinesCases }
    \cup
    { MakeInput(0, BaseTriple, c, KlinesFail, x, e) :
          c \in CapPairs, x \in ExtCases, e \in EtfCases }
    \cup
    { MakeInput(0, BaseTriple, BaseCaps, KlinesFail, ExtAbsent, e) : e \in EtfFailureCases }

CacheInputs ==
    { MakeInput(0, BaseTriple, c, KlinesFail, ExtAbsent, EtfProviderFails) : c \in CachePairs }
    \cup { MakeInput(4, BaseTriple, BaseCaps, KlinesFail, ExtAbsent, EtfProviderFails) }

NoInput == MakeInput(0, << 0, 0, 0 >>, << 0, 0 >>, KlinesFail, ExtAbsent, EtfProviderFails)

\* the caps differ from those of the previous evaluation at most MaxChanges times
ChangeOK(in) ==
    IF in.fail # 0 \/ log = << >> THEN TRUE
    ELSE IF log[Len(log)] = << in.stable, in.total >> THEN TRUE
    ELSE changes < MaxChanges

\* at most MaxFailures calls of a run fail to obtain a scalar
FailureOK == calls - Len(log) < MaxFailures

----------------------------------------------------------------------------
(* Operations, one caller at a time *)

\* StateMachineEngine.__init__ (engine.py:36-45)
Construct(e) ==
    /\ e \notin engines
    /\ e = Cardinality(engines) + 1
    /\ engines' = engines \cup {e}
    /\ UNCHANGED << stableCaps, totalCaps, calls, changes, log, inp, res >>
    /\ UNCHANGED << concVars, partVars >>

\* a faulty variant: the caps the failing call did obtain appended before the
\* failure leaves the call
EvaluateAppendingOnFailure(self, in) ==
    /\ self \in engines
    /\ calls' = calls + 1
    /\ inp' = [in EXCEPT !.self = self]
    /\ \E h \in {HolderOf(self)} :
       \E c \in {UpdateMarketCapHistory(stableCaps[h], totalCaps[h], in.stable, in.total)} :
           /\ stableCaps' = [stableCaps EXCEPT ![h] = c.stable]
           /\ totalCaps' = [totalCaps EXCEPT ![h] = c.total]
           /\ IF in.fail # 0
              THEN /\ res' = [outcome |-> EvaluateOutcome(in), loc |-> NoLocals]
                   /\ UNCHANGED << changes, log >>
              ELSE /\ log' = Append(log, << in.stable, in.total >>)
                   /\ changes' = IF log # << >> /\ log[Len(log)] # << in.stable, in.total >>
                                 THEN changes + 1 ELSE changes
                   /\ res' = [outcome |-> EvaluateOutcome(in),
                              loc |-> EvaluateLocals(in, c.stable, c.total)]
    /\ UNCHANGED engines
    /\ UNCHANGED << concVars, partVars >>

\* StateMachineEngine.evaluate (engine.py:47-167), the whole call
Evaluate(self, in) ==
    /\ self \in engines
    /\ calls' = calls + 1
    /\ inp' = [in EXCEPT !.self = self]
    /\ IF in.fail # 0
       THEN /\ res' = [outcome |-> EvaluateOutcome(in), loc |-> NoLocals]
            /\ UNCHANGED << stableCaps, totalCaps, changes, log >>
       ELSE \E h \in {HolderOf(self)} :
            \E c \in {UpdateMarketCapHistory(stableCaps[h], totalCaps[h], in.stable, in.total)} :
                /\ stableCaps' = [stableCaps EXCEPT ![h] = c.stable]
                /\ totalCaps' = [totalCaps EXCEPT ![h] = c.total]
                /\ log' = Append(log, << in.stable, in.total >>)
                /\ changes' = IF log # << >> /\ log[Len(log)] # << in.stable, in.total >>
                              THEN changes + 1 ELSE changes
                /\ res' = [outcome |-> EvaluateOutcome(in),
                           loc |-> EvaluateLocals(in, c.stable, c.total)]
    /\ UNCHANGED engines
    /\ UNCHANGED << concVars, partVars >>

\* the caller has the outcome of its call (the result, or the exception) and
\* the engine is ready for the next call; nothing of the call is kept but the cache
Idle == [outcome |-> "idle", loc |-> NoLocals]

Return ==
    /\ res.outcome # "idle"
    /\ res' = Idle
    /\ inp' = NoInput
    /\ UNCHANGED << stableCaps, totalCaps, engines, calls, changes, log >>
    /\ UNCHANGED << concVars, partVars >>

----------------------------------------------------------------------------
(* Operations, several callers at a time.  evaluate() takes no lock; a step  *)
(* is one statement on the shared lists (list.append, len, list.pop and the  *)
(* evaluation of one argument are each atomic in CPython).                    *)

Threads == 1..MaxThreads

\* evaluations made one after the other before the concurrent callers arrive
PriorEvaluations == { MinHistoryDays, MaxHistorySize - 1, MaxHistorySize }

Goto(t, line) == pc' = [pc EXCEPT ![t] = line]

\* engine.py:54-58: the five scalars, no shared state
Fetch(t) ==
    /\ pc[t] = "fetch"
    /\ Goto(t, "append_stable")
    /\ calls' = calls + 1
    /\ UNCHANGED << stableCaps, totalCaps, engines, changes, log, inp, res >>
    /\ UNCHANGED << my, stableBy, totalBy >>
    /\ UNCHANGED partVars

\* engine.py:238
AppendStable(t) ==
    /\ pc[t] = "append_stable"
    /\ Goto(t, "append_total")
    /\ stableCaps' = [stableCaps EXCEPT ![HolderOf(1)] = Append(@, BaseCaps[1])]
    /\ stableBy' = Append(stableBy, my[t].id)
    /\ log' = Append(log, BaseCaps)
    /\ UNCHANGED << totalCaps, engines, calls, changes, inp, res, my, totalBy >>
    /\ UNCHANGED partVars

\* engine.py:239
AppendTotal(t) ==
    /\ pc[t] = "append_total"
    /\ Goto(t, "check")
    /\ totalCaps' = [totalCaps EXCEPT ![HolderOf(1)] = Append(@, BaseCaps[2])]
    /\ totalBy' = Append(totalBy, my[t].id)
    /\ UNCHANGED << stableCaps, engines, calls, changes, log, inp, res, my, stableBy >>
    /\ UNCHANGED partVars

\* engine.py:242
CheckSize(t) ==
    /\ pc[t] = "check"
    /\ Goto(t, IF Len(stableCaps[HolderOf(1)]) > MaxHistorySize
                THEN "pop_stable" ELSE "read_stable")
    /\ UNCHANGED << seqVars, my, stableBy, totalBy >>
    /\ UNCHANGED partVars

\* engine.py:243
PopStable(t) ==
    /\ pc[t] = "pop_stable"
    /\ Goto(t, "pop_total")
    /\ stableCaps' = [stableCaps EXCEPT ![HolderOf(1)] = Tail(@)]
    /\ stableBy' = Tail(stableBy)
    /\ UNCHANGED << totalCaps, engines, calls, changes, log, inp, res, my, totalBy >>
    /\ UNCHANGED partVars

\* engine.py:244
PopTotal(t) ==
    /\ pc[t] = "pop_total"
    /\ Goto(t, "read_stable")
    /\ totalCaps' = [totalCaps EXCEPT ![HolderOf(1)] = Tail(@)]
    /\ totalBy' = Tail(totalBy)
    /\ UNCHANGED << stableCaps, engines, calls, changes, log, inp, res, my, stableBy >>
    /\ UNCHANGED partVars

\* engine.py:431-433: _determine_funding reads the stablecoin list
ReadStable(t) ==
    /\ pc[t] = "read_stable"
    /\ Goto(t, "read_total")
    /\ my' = [my EXCEPT ![t].stable = stableBy]
    /\ UNCHANGED << seqVars, stableBy, totalBy >>
    /\ UNCHANGED partVars

\* engine.py:434: and then the total-cap list
ReadTotal(t) ==
    /\ pc[t] = "read_total"
    /\ Goto(t, "done")
    /\ my' = [my EXCEPT ![t].total = totalBy]
    /\ UNCHANGED << seqVars, stableBy, totalBy >>
    /\ UNCHANGED partVars

----------------------------------------------------------------------------
(* Sub-classifiers called on their own, as a caller holding an engine may   *)
(* call any of them: they read and write nothing of the engine.             *)

\* no sub-classifier has been called on its own
NoCall == [method |-> "none"]
IdleParts == args = NoCall /\ ret = NoCall

\* prices in dollars: none, a negative one, and those whose drawdown from
\* 100000 falls on and beside the limits 20, 35 and 60
ThermometerPrices ==
    { -5000, 0, 40000, 40001, 64000, 65000, 65001, 79999, 80000, 80001, 100000, 120000 }
PriceHistories ==
    { << >>, << 100000 >>, << 60000, 100000, 90000 >>, << 0 >>, << 0, 0 >>, << -3000 >> }

\* _calculate_risk_thermometer(btc_price, {"prices": prices})
CallRiskThermometer ==
    \E btc_price \in ThermometerPrices, prices \in PriceHistories :
        /\ args = NoCall
        /\ args' = [method |-> "_calculate_risk_thermometer",
                    btc_price |-> btc_price, prices |-> prices]
        /\ ret' = CalculateRiskThermometer(btc_price, [prices |-> prices])
        /\ UNCHANGED << seqVars, concVars >>

\* the slope, in slope units, whose value is p %/day
PercentPerDay(p) == RMul(p, Rat(SlopeUnitPercent.d, SlopeUnitPercent.n))

\* moving averages: MA50 below, at and above MA200 and far from it; an MA200
\* that is negative, zero or positive
ConfidenceMA50 == { 45, 50, 55, 300 }
ConfidenceMA200 == { -50, 0, 50 }
\* slopes in %/day: none, below, at and above the 0.5 at which line 698 saturates
ConfidenceSlopes ==
    { PercentPerDay(p) : p \in { Zero, Rat(1, 10), Rat(-1, 4), Rat(1, 2), RInt(-3) } }
\* ratio changes in percentage points: inside, at and beyond the 8.0 of line 703
ConfidenceRatioChanges == { Zero, RInt(4), Rat(-184, 25), RInt(8), RInt(-8), RInt(92) }

\* _calculate_confidence(btc_price, ma50, ma200, ma50_slope, ma200_slope,
\* stablecoin_ratio_change); raised names the exception leaving the call
CallConfidence ==
    \E ma50 \in ConfidenceMA50, ma200 \in ConfidenceMA200,
       ma50_slope \in ConfidenceSlopes, ma200_slope \in ConfidenceSlopes,
       stablecoin_ratio_change \in ConfidenceRatioChanges :
        /\ args = NoCall
        /\ args' = [method |-> "_calculate_confidence", btc_price |-> 60,
                    ma50 |-> ma50, ma200 |-> ma200, ma50_slope |-> ma50_slope,
                    ma200_slope |-> ma200_slope,
                    stablecoin_ratio_change |-> stablecoin_ratio_change]
        /\ ret' = [raised |-> "none",
                   confidence |-> CalculateConfidence(60, ma50, ma200, ma50_slope,
                                      ma200_slope, stablecoin_ratio_change)]
        /\ UNCHANGED << seqVars, concVars >>

\* the current day's net flow, in $M: on, inside and outside the $10M limit
EtfNetFlows == { -20, -10, -9, 0, 9, 10, 20 }
\* daily flows of a history, in $M
EtfDailyFlows == { -30, -5, -1, 0, 2, 9, 30 }
\* histories of three runs of equal flows; the run lengths give 7, 13, 14, 20
\* and 30 days, and a last week that is one run or parts of two
EtfRunLengths ==
    { << 0, 0, 7 >>, << 0, 6, 7 >>, << 0, 7, 7 >>, << 6, 7, 7 >>, << 6, 10, 4 >>,
      << 16, 7, 7 >>, << 9, 14, 7 >> }
EtfLongHistories ==
    { Rep(a, l[1]) \o Rep(b, l[2]) \o Rep(c, l[3]) :
          a \in EtfDailyFlows, b \in EtfDailyFlows, c \in EtfDailyFlows, l \in EtfRunLengths }
\* no history (None or []), and 6 days
EtfShortHistories == { << >>, Rep(-30, 6), Rep(30, 6) }

\* what the provider gives in the call: the snapshot and a history
EtfCallCases ==
    { [fails |-> "none", net_flow |-> Some(f), aum |-> Some(900), history |-> h,
       malformed |-> FALSE] : f \in EtfNetFlows, h \in EtfLongHistories \cup EtfShortHistories }
    \cup
    { [fails |-> "none", net_flow |-> Some(f), aum |-> Some(900), history |-> Rep(30, 6),
       malformed |-> TRUE] : f \in EtfNetFlows }
    \cup EtfCases \cup EtfFailureCases

\* _calculate_etf_accelerator() with the provider giving etf
CallEtfAccelerator ==
    \E etf \in EtfCallCases :
        /\ args = NoCall
        /\ args' = [method |-> "_calculate_etf_accelerator", etf |-> etf]
        /\ ret' = CalculateEtfAccelerator(etf)
        /\ UNCHANGED << seqVars, concVars >>

\* prices and moving averages: each below, at and above the others
TrendPrices == { 40, 50, 60 }
\* MA histories: none, 9 values (one short of a slope), and 10 or 12 values
\* that rise, fall or stay
MAHistories ==
    { << >>, Rep(4, 4) \o Rep(50, 5), Rep(4, 5) \o Rep(50, 5), Rep(625, 5) \o Rep(50, 5),
      Rep(50, 10), Rep(625, 6) \o Rep(50, 6) }

\* _determine_trend_with_slope(btc_price, ma50, ma200, historical_data)
CallTrend ==
    \E btc_price \in TrendPrices, ma50 \in TrendPrices, ma200 \in TrendPrices,
       ma50_history \in MAHistories, ma200_history \in MAHistories :
        /\ args = NoCall
        /\ args' = [method |-> "_determine_trend_with_slope", btc_price |-> btc_price,
                    ma50 |-> ma50, ma200 |-> ma200,
                    ma50_history |-> ma50_history, ma200_history |-> ma200_history]
        /\ ret' = DetermineTrendWithSlope(btc_price, ma50, ma200,
                      [prices |-> << >>, ma50 |-> ma50_history, ma200 |-> ma200_history])
        /\ UNCHANGED << seqVars, concVars >>

\* values of a series: negative, zero, and the grid 4, 50, 625
SeriesValues == { -4, 0, 4, 50, 625 }
\* every series of up to MaxSeriesLen values, and series of 10 and 12 values
\* that are constant, rising, falling, or hold a zero in the window
ShortSeries == UNION { [1..n -> SeriesValues] : n \in 0..MaxSeriesLen }
LongSeries ==
    { Rep(4, 10), Rep(625, 12), Rep(4, 5) \o Rep(50, 5), Rep(625, 6) \o Rep(50, 6),
      Rep(4, 4) \o << 0 >> \o Rep(50, 5), Rep(0, 9) \o << 50 >>, Rep(-4, 10) }
\* window sizes: negative, zero, one, and up to the default of 10
WindowSizes == { -2, -1, 0, 1, 2, 3, 4, SlopePeriods }

\* _calculate_slope(values, periods); raised names the exception leaving the call
CallSlope ==
    \E values \in ShortSeries \cup LongSeries, periods \in WindowSizes :
        /\ args = NoCall
        /\ args' = [method |-> "_calculate_slope", values |-> values, periods |-> periods]
        /\ ret' = IF CalculateSlopeOutcome(values, periods) = "ok"
                  THEN [raised |-> "none", slope |-> CalculateSlope(values, periods)]
                  ELSE [raised |-> CalculateSlopeOutcome(values, periods), slope |-> Zero]
        /\ UNCHANGED << seqVars, concVars >>

\* the caller has what the call returned; the call leaves nothing behind
ReturnPart ==
    /\ args # NoCall
    /\ args' = NoCall
    /\ ret' = NoCall
    /\ UNCHANGED << seqVars, concVars >>

----------------------------------------------------------------------------
(* Specifications *)

IdleConc == /\ pc = << >> /\ my = << >> /\ stableBy = << >> /\ totalBy = << >>

InitSeq(E) ==
    /\ stableCaps = [h \in Holders |-> << >>]
    /\ totalCaps = [h \in Holders |-> << >>]
    /\ engines = E
    /\ calls = 0
    /\ changes = 0
    /\ log = << >>
    /\ inp = NoInput
    /\ res = Idle

\* a process with one engine, called with every kind of upstream data
Init == InitSeq({1}) /\ IdleConc /\ IdleParts

EvaluateOk ==
    \E in \in EvalInputs, e \in engines :
        res.outcome = "idle" /\ calls < MaxEvalCalls /\ ChangeOK(in) /\ Evaluate(e, in)

EvaluateFailing ==
    \E in \in FailingInputs, e \in engines :
        res.outcome = "idle" /\ calls < MaxEvalCalls /\ FailureOK /\ Evaluate(e, in)

\* the caller calls again at once, and the upstream data are those of its last call
EvaluateAgain ==
    /\ res.outcome # "idle"
    /\ inp.fail = 0
    /\ calls < MaxEvalCalls
    /\ Evaluate(inp.self, inp)

Next == EvaluateOk \/ EvaluateFailing \/ EvaluateAgain \/ Return

Spec == Init /\ [][Next]_vars

\* a process with one engine, called many times: the cache fills and is trimmed
InitCache == InitSeq({1}) /\ IdleConc /\ IdleParts

EvaluateCache ==
    \E in \in CacheInputs, e \in engines :
        /\ res.outcome = "idle"
        /\ calls < MaxCalls
        /\ ChangeOK(in)
        /\ (in.fail = 0 \/ FailureOK)
        /\ Evaluate(e, in)

NextCache == EvaluateCache \/ Return

SpecCache == InitCache /\ [][NextCache]_vars

\* a process from its start: engines are constructed, at any time, and called
InitShared == InitSeq({}) /\ IdleConc /\ IdleParts

ConstructEngine == \E e \in EngineIds : Construct(e)

EvaluateShared ==
    \E in \in CacheInputs, e \in engines :
        /\ res.outcome = "idle"
        /\ calls < MaxEvalCalls
        /\ ChangeOK(in)
        /\ (in.fail = 0 \/ FailureOK)
        /\ Evaluate(e, in)

NextShared == ConstructEngine \/ EvaluateShared \/ Return

SpecShared == InitShared /\ [][NextShared]_vars

\* n evaluations have run one after the other with the same caps; then
\* MaxThreads callers enter evaluate() together.  Evaluation n + t is caller t's.
InitConc ==
    \E n \in PriorEvaluations :
        /\ stableCaps = [h \in Holders |-> IF h = HolderOf(1) THEN Rep(BaseCaps[1], n) ELSE << >>]
        /\ totalCaps = [h \in Holders |-> IF h = HolderOf(1) THEN Rep(BaseCaps[2], n) ELSE << >>]
        /\ engines = {1}
        /\ calls = n
        /\ changes = 0
        /\ log = Rep(BaseCaps, n)
        /\ inp = NoInput
        /\ res = Idle
        /\ pc = [t \in Threads |-> "fetch"]
        /\ my = [t \in Threads |-> [id |-> n + t, stable |-> << >>, total |-> << >>]]
        /\ stableBy = [i \in 1..n |-> i]
        /\ totalBy = [i \in 1..n |-> i]
        /\ IdleParts

FetchStep == \E t \in Threads : Fetch(t)
AppendStableStep == \E t \in Threads : AppendStable(t)
AppendTotalStep == \E t \in Threads : AppendTotal(t)
CheckSizeStep == \E t \in Threads : CheckSize(t)
PopStableStep == \E t \in Threads : PopStable(t)
PopTotalStep == \E t \in Threads : PopTotal(t)
ReadStableStep == \E t \in Threads : ReadStable(t)
ReadTotalStep == \E t \in Threads : ReadTotal(t)

NextConc ==
    \/ FetchStep \/ AppendStableStep \/ AppendTotalStep \/ CheckSizeStep
    \/ PopStableStep \/ PopTotalStep \/ ReadStableStep \/ ReadTotalStep

SpecConc == InitConc /\ [][NextConc]_vars



\* an engine whose sub-classifiers are called one after the other
InitParts == InitSeq({1}) /\ IdleConc /\ IdleParts

NextParts ==
    CallSlope \/ CallTrend \/ CallRiskThermometer \/ CallConfidence
        \/ CallEtfAccelerator \/ ReturnPart

SpecParts == InitParts /\ [][NextParts]_vars

----------------------------------------------------------------------------
(* Properties *)

\* an evaluate() call that obtained its five scalars has run, and its outcome
\* is with the caller
Evaluated == res.outcome # "idle" /\ inp.fail = 0

\* the HistoryCache: the two lists of the class
CacheStable == stableCaps[ClassHolder]
CacheTotal == totalCaps[ClassHolder]

\* the caps of the most recent min(n, 30) evaluations, oldest first
RecentCaps == LastN(log, Min(Len(log), 30))

\* the lists s and t hold exactly the most recent caps
HoldsRecent(s, t) ==
    /\ Len(s) = Len(RecentCaps)
    /\ Len(t) = Len(RecentCaps)
    /\ \A i \in 1..Len(RecentCaps) : s[i] = RecentCaps[i][1] /\ t[i] = RecentCaps[i][2]

\* C1: whenever the five required scalars are obtained, evaluate() completes and
\* returns a result carrying a regime state, whatever the price history, the
\* cap history and the ETF data are: it never raises.
C1_EvaluateCompletes ==
    Evaluated => res.outcome = "ok" /\ res.loc.state \in MarketState

\* a call with its five scalars, no history and a failing ETF provider ends in
\* the TypeError of the ValidationLayer constructor
C1_RaisesTypeError ==
    /\ Evaluated
    /\ inp.klines = KlinesFail /\ inp.ext = ExtAbsent /\ inp.etf = EtfProviderFails
    /\ res.outcome = "TypeError"

\* C2 (as stated): after n sequential evaluate() calls from an empty cache each
\* list holds exactly min(n, 30) values, n counting every call.
C2_CacheHoldsRecentOfAllCalls ==
    /\ Len(CacheStable) = Min(calls, 30)
    /\ Len(CacheTotal) = Min(calls, 30)

\* C2 (amended): after any sequence of sequential evaluate() calls from an empty
\* cache, n of which obtained their five scalars, each list holds exactly
\* min(n, 30) values, the caps of the most recent min(n, 30) of those
\* evaluations, oldest first, and the two lists have equal length.
C2_CacheHoldsRecent ==
    /\ HoldsRecent(CacheStable, CacheTotal)
    /\ Len(CacheStable) = Len(CacheTotal)
    /\ Len(CacheStable) <= 30

\* 35 evaluations have appended, not all the same caps, and 30 are kept
C2_ThirtyFiveAppends ==
    /\ Len(log) = 35
    /\ Len(CacheStable) = 30
    /\ CacheStable[1] # CacheStable[30]

\* C3: with several callers inside evaluate(), append+trim is atomic: no
\* evaluation reads a cache in which a list holds more than 30 entries, in which
\* the two lists differ in length, or in which the values at one index of the
\* two lists come from different evaluations.
C3_AppendTrimAtomic ==
    \A t \in DOMAIN pc :
        pc[t] = "done" =>
            /\ Len(my[t].stable) <= 30
            /\ Len(my[t].stable) = Len(my[t].total)
            /\ \A i \in DOMAIN my[t].stable \cap DOMAIN my[t].total :
                   my[t].stable[i] = my[t].total[i]

\* C4: all instances share one HistoryCache: what evaluate() on any instance
\* appended is in the cache every instance reads, and constructing an instance
\* leaves the cache as it is.
C4_OneCacheForAllInstances ==
    \A e \in engines : HoldsRecent(stableCaps[HolderOf(e)], totalCaps[HolderOf(e)])

\* instance 2 made the only evaluation so far, and instance 1 reads its caps
C4_OtherInstanceSeesAppend ==
    /\ engines = {1, 2}
    /\ Evaluated /\ inp.self = 2
    /\ Len(log) = 1
    /\ stableCaps[HolderOf(1)] = << inp.stable >>
    /\ totalCaps[HolderOf(1)] = << inp.total >>

\* C5: if obtaining any one of the five required scalars fails, evaluate()
\* propagates the failure and produces no result and no regime.
C5_FetchFailurePropagates ==
    (res.outcome # "idle" /\ inp.fail # 0) =>
        /\ res.outcome = "DataUnavailable"
        /\ res.loc = NoLocals
        /\ res.loc.state \notin MarketState

\* the last of the five fetches, the stablecoin cap, failed
C5_StablecoinFetchFails ==
    inp.fail = 5 /\ res.outcome = "DataUnavailable"

\* the fields of the result that two calls are compared on
SameResult(a, b) ==
    /\ a.trend = b.trend /\ a.funding = b.funding /\ a.state = b.state
    /\ a.stablecoin_change = b.stablecoin_change
    /\ a.stablecoin_ratio_change = b.stablecoin_ratio_change
    /\ a.stablecoin_slope = b.stablecoin_slope /\ a.total_slope = b.total_slope
    /\ a.ma50_slope = b.ma50_slope /\ a.ma200_slope = b.ma200_slope
    /\ a.confidence = b.confidence

\* a call is followed at once by a call with the same upstream data, and the
\* cache held a value before the first of the two
CalledTwice ==
    /\ Evaluated /\ Evaluated'
    /\ inp' = inp
    /\ calls' = calls + 1
    /\ Len(res.loc.readStable) >= 2

\* C6: calling evaluate() twice in succession with identical upstream data and
\* an already-populated cache yields identical results, including the funding
\* label, the stablecoin change, the ratio change, the slopes and the confidence.
C6_RepeatedCallSameResult ==
    [][CalledTwice => SameResult(res.loc, res'.loc)]_vars

\* the table of the regime mapper: state and risk label of a pair
RegimeTable(trend, funding) ==
    CASE trend = "BULLISH" /\ funding = "OFFENSIVE" -> << "BULL_OFFENSIVE", "HIGH" >>
      [] trend = "BULLISH" /\ funding = "DEFENSIVE" -> << "BULL_DEFENSIVE", "MEDIUM" >>
      [] trend = "BEARISH" /\ funding = "OFFENSIVE" -> << "BEAR_OFFENSIVE", "MEDIUM" >>
      [] trend = "BEARISH" /\ funding = "DEFENSIVE" -> << "BEAR_DEFENSIVE", "LOW" >>

\* C7: the regime mapper is total on {BULLISH, BEARISH} x {OFFENSIVE, DEFENSIVE}:
\* every pair maps to the one state and the risk label of the table, and the
\* risk lookup never fails on a mapped state.
C7_RegimeMapperTable ==
    /\ \A t \in TrendDirection, f \in FundingBehavior :
           << MapToState(t, f), GetRiskLevel(MapToState(t, f)) >> = RegimeTable(t, f)
    /\ Evaluated =>
           /\ res.loc.trend \in TrendDirection
           /\ res.loc.funding \in FundingBehavior
           /\ << res.loc.state, res.loc.risk_level >>
                  = RegimeTable(res.loc.trend, res.loc.funding)

\* an evaluation found a bearish trend and offensive funding
C7_BearOffensive ==
    /\ Evaluated
    /\ res.loc.trend = "BEARISH" /\ res.loc.funding = "OFFENSIVE"
    /\ res.loc.state = "BEAR_OFFENSIVE" /\ res.loc.risk_level = "MEDIUM"

\* C8: for every (price, MA200, MA200 slope) the trend is: price > MA200 and
\* slope >= 0 -> BULLISH; price < MA200 and slope < 0 -> BEARISH; price > MA200
\* with a negative slope -> BULLISH; otherwise (price <= MA200, price = MA200
\* with any slope included) -> BEARISH.  It is always one of the two
\* directions, and both slopes are returned.
C8_TrendRules ==
    Evaluated =>
        LET p == inp.btc_price
            m == inp.ma200
            slope == res.loc.ma200_slope
            trend == res.loc.trend
        IN  /\ (p > m /\ slope.n >= 0) => trend = "BULLISH"
            /\ (p < m /\ slope.n < 0) => trend = "BEARISH"
            /\ (p > m /\ slope.n < 0) => trend = "BULLISH"
            /\ p <= m => trend = "BEARISH"
            /\ trend \in TrendDirection
            /\ res.loc.ma50_slope = HistorySlope(GetHistoricalData(inp.klines).ma50)
            /\ res.loc.ma200_slope = HistorySlope(GetHistoricalData(inp.klines).ma200)

\* the price is exactly the MA200 and the MA200 rises
C8_PriceAtRisingMA200 ==
    /\ Evaluated
    /\ inp.btc_price = inp.ma200
    /\ res.loc.ma200_slope.n > 0
    /\ res.loc.trend = "BEARISH"

\* the funding classification ran on slopes of a source holding 7 points
PrimaryPath ==
    /\ Evaluated
    /\ \/ /\ res.loc.fund_source = "external"
          /\ inp.ext.present /\ Len(inp.ext.stable) >= 7 /\ Len(inp.ext.total) >= 7
       \/ /\ res.loc.fund_source = "cache"
          /\ Len(res.loc.readStable) >= 7

\* C9: on the primary path the funding label follows the sign pair (stablecoin
\* slope, total slope): (+,+) -> OFFENSIVE, (-,+) -> OFFENSIVE,
\* (+,-) -> DEFENSIVE, (-,-) -> DEFENSIVE.
C9_SignPairTable ==
    PrimaryPath =>
        LET s == res.loc.fund_stablecoin_slope.n
            t == res.loc.fund_total_slope.n
            funding == res.loc.funding
        IN  /\ (s > 0 /\ t > 0) => funding = "OFFENSIVE"
            /\ (s < 0 /\ t > 0) => funding = "OFFENSIVE"
            /\ (s > 0 /\ t < 0) => funding = "DEFENSIVE"
            /\ (s < 0 /\ t < 0) => funding = "DEFENSIVE"

\* stablecoins fall while the total cap rises, on 7 external points
C9_StablecoinDownTotalUp ==
    /\ PrimaryPath
    /\ res.loc.fund_source = "external"
    /\ res.loc.fund_stablecoin_slope.n < 0 /\ res.loc.fund_total_slope.n > 0
    /\ res.loc.funding = "OFFENSIVE"

\* neither the external cap history nor the cache the classifier reads has 7 points
NeitherHasSeven ==
    /\ ~(inp.ext.present /\ (Len(inp.ext.stable) >= 7 \/ Len(inp.ext.total) >= 7))
    /\ Len(res.loc.readStable) < 7

\* C10: when neither the external cap history nor the cache has 7 points the
\* funding label comes from ratio = stablecoin_cap / total_cap * 100 against
\* 8.0: ratio < 8.0 -> OFFENSIVE, ratio >= 8.0 -> DEFENSIVE; the change returned
\* is the raw stablecoin cap and the ratio change is ratio - 8.0.
C10_RatioFallback ==
    (Evaluated /\ NeitherHasSeven) =>
        /\ res.loc.path = "ratio"
        /\ inp.stable * 100 < 8 * inp.total => res.loc.funding = "OFFENSIVE"
        /\ inp.stable * 100 >= 8 * inp.total => res.loc.funding = "DEFENSIVE"
        /\ res.loc.stablecoin_change = inp.stable
        /\ res.loc.stablecoin_ratio_change.n * inp.total
               = (inp.stable * 100 - 8 * inp.total) * res.loc.stablecoin_ratio_change.d

\* the ratio is exactly 8.0 and the label is DEFENSIVE
C10_RatioExactlyEight ==
    /\ Evaluated /\ NeitherHasSeven
    /\ inp.stable * 100 = 8 * inp.total
    /\ res.loc.path = "ratio"
    /\ res.loc.funding = "DEFENSIVE"
    /\ res.loc.stablecoin_ratio_change = Zero

\* the source whose slopes the classifier would use holds 7 points
SourceInUseHasSeven ==
    \/ inp.ext.present /\ Len(inp.ext.stable) >= 7 /\ Len(inp.ext.total) >= 7
    \/ Len(res.loc.readStable) >= 7

\* C11: the ratio-threshold fallback is taken only when neither the external
\* history nor the cache has 7 points; whenever the source in use has 7 points
\* the funding label comes from the slope sign table and never from the 8.0
\* threshold.
C11_RatioOnlyWhenInsufficient ==
    Evaluated =>
        /\ res.loc.path = "ratio" => NeitherHasSeven
        /\ SourceInUseHasSeven =>
               /\ res.loc.path = "slopes"
               /\ res.loc.funding
                      = SlopeTable(res.loc.fund_stablecoin_slope, res.loc.fund_total_slope)

\* seven identical cache entries: both slopes are 0.0 and the threshold decides
C11_FlatHistoryTakesRatio ==
    /\ Evaluated
    /\ ~inp.ext.present
    /\ Len(res.loc.readStable) >= 7
    /\ res.loc.path = "ratio"
    /\ res.loc.funding = "OFFENSIVE"
    /\ SlopeTable(res.loc.fund_stablecoin_slope, res.loc.fund_total_slope) = "DEFENSIVE"

\* the external source supplies 7 points for both series
ExternalHasSeven ==
    inp.ext.present /\ Len(inp.ext.stable) >= 7 /\ Len(inp.ext.total) >= 7

\* C12: the cache is consulted for the funding slopes only when the external
\* source has fewer than 7 points; when the external source supplies 7 points
\* for both series, both slopes used for the classification are the slopes of
\* the external series, whatever the cache contains.
C12_ExternalPreferred ==
    Evaluated =>
        /\ res.loc.fund_source = "cache" => ~ExternalHasSeven
        /\ ExternalHasSeven =>
               /\ res.loc.fund_stablecoin_slope
                      = CalculateSlope(inp.ext.stable, Min(10, Len(inp.ext.stable)))
               /\ res.loc.fund_total_slope
                      = CalculateSlope(inp.ext.total, Min(10, Len(inp.ext.total)))

\* 8 identical external points for both series, and a slope taken from the cache
C12_FlatExternalUsesCache ==
    /\ Evaluated
    /\ ExternalHasSeven
    /\ res.loc.fund_source = "cache"
    /\ res.loc.fund_stablecoin_slope # Zero
    /\ CalculateSlope(inp.ext.stable, Min(10, Len(inp.ext.stable))) = Zero
    /\ res.loc.path = "slopes"

\* the oldest point of the history whose slopes decided the classification
OldestOfUsed ==
    IF res.loc.fund_source = "external"
    THEN [stable |-> inp.ext.stable[1], total |-> inp.ext.total[1]]
    ELSE [stable |-> res.loc.readStable[1], total |-> res.loc.readTotal[1]]

\* C13: on the primary path the returned stablecoin-cap change and
\* stablecoin-ratio change are the current values minus those of the oldest
\* point of the history (external source or cache) the slopes were taken from.
C13_ChangesAgainstUsedHistory ==
    (PrimaryPath /\ res.loc.path = "slopes") =>
        /\ res.loc.stablecoin_change = inp.stable - OldestOfUsed.stable
        /\ res.loc.stablecoin_ratio_change
               = RSub(Rat(inp.stable * 100, inp.total),
                      Rat(OldestOfUsed.stable * 100, OldestOfUsed.total))

\* slopes from a cache of 7 entries, changes against a short external history
C13_CacheSlopesExternalOldest ==
    /\ PrimaryPath /\ res.loc.path = "slopes"
    /\ res.loc.fund_source = "cache"
    /\ inp.ext.present /\ inp.ext.stable # << >> /\ Len(inp.ext.stable) < 7
    /\ res.loc.stablecoin_change = inp.stable - inp.ext.stable[1]
    /\ res.loc.stablecoin_change # inp.stable - res.loc.readStable[1]

\* _calculate_risk_thermometer has been called on its own
ThermometerCalled == args.method = "_calculate_risk_thermometer"

\* max(prices + [btc_price]), or btc_price when there is no history
AthOfCall ==
    IF args.prices = << >> THEN args.btc_price
    ELSE CHOOSE m \in {args.prices[i] : i \in DOMAIN args.prices} \cup {args.btc_price} :
             \A i \in DOMAIN args.prices : m >= args.prices[i] /\ m >= args.btc_price

\* C14: with ATH the maximum of the price history and the current price (the
\* current price when there is no history), the drawdown returned is
\* (ATH - price) / ATH * 100, or 0.0 when that is negative; it is never
\* negative; an ATH of 0 gives (0.0, normal).
C14_DrawdownFromAth ==
    ThermometerCalled =>
        LET ath == AthOfCall
            d == ret.ath_drawdown
        IN  /\ d.n >= 0 /\ d.d > 0
            /\ ath = 0 => (d = Zero /\ ret.risk_thermometer = "normal")
            /\ ath # 0 =>
                   LET drawdown == Rat((ath - args.btc_price) * 100, ath)
                   IN  d = IF drawdown.n < 0 THEN Zero ELSE drawdown

\* no history and a price of 0: the ATH is 0
C14_AthZero ==
    /\ ThermometerCalled
    /\ args.prices = << >> /\ args.btc_price = 0
    /\ ret = [ath_drawdown |-> Zero, risk_thermometer |-> "normal"]

ConfidenceCalled == args.method = "_calculate_confidence"

\* |slope| in %/day
SlopePercent(slope) == RMul(RAbs(slope), SlopeUnitPercent)

\* C16: for every price, MA50, MA200 (also MA200 <= 0, where the arrangement
\* term is 0), pair of slopes and ratio change, the call returns without an
\* exception a value in [0,1], which is
\* min(1, (min(1, |MA50-MA200|/MA200*5 + min(1, avg(|slopes|)/0.5)*0.5)
\*          + min(1, |ratio change|/8.0)) / 2).
C16_ConfidenceFormula ==
    ConfidenceCalled =>
        LET clarity == IF args.ma200 > 0
                       THEN Rat(Abs(args.ma50 - args.ma200), args.ma200) ELSE Zero
            avg == RMul(RAdd(SlopePercent(args.ma50_slope), SlopePercent(args.ma200_slope)),
                        Rat(1, 2))
            slope_term == RMul(RMin(One, RMul(avg, RInt(2))), Rat(1, 2))
            trend == RMin(One, RAdd(RMul(clarity, RInt(5)), slope_term))
            funding == RMin(One, RMul(RAbs(args.stablecoin_ratio_change), Rat(1, 8)))
        IN  /\ ret.raised = "none"
            /\ ret.confidence.n >= 0 /\ ret.confidence.n <= ret.confidence.d
            /\ ret.confidence = RMin(One, RMul(RAdd(trend, funding), Rat(1, 2)))

\* MA200 = 0, both slopes 0.1 %/day, ratio change 4: (0.1 + 0.5) / 2
C16_ZeroMA200 ==
    /\ ConfidenceCalled
    /\ args.ma200 = 0 /\ args.ma50 = 55
    /\ args.ma50_slope = PercentPerDay(Rat(1, 10))
    /\ args.ma200_slope = PercentPerDay(Rat(1, 10))
    /\ args.stablecoin_ratio_change = RInt(4)
    /\ ret = [raised |-> "none", confidence |-> Rat(3, 10)]

\* an exception is raised inside _calculate_etf_accelerator: by get_provider,
\* by get_etf_data, by get_etf_net_flow_history (asked only once a net flow
\* is there), or by reading a record without its 'net_flow' key (read only
\* when the history has 7 days)
EtfRaises(etf) ==
    \/ etf.fails \in {"provider", "snapshot"}
    \/ etf.net_flow.some /\ etf.fails = "history"
    \/ etf.net_flow.some /\ etf.fails = "none" /\ Len(etf.history) >= 7 /\ etf.malformed

\* C17: an exception raised anywhere in the ETF accelerator resolution gives
\* status unknown with net flow and AUM both absent, and evaluate() goes on:
\* it ends as the statements after the ETF step make it end, not with the
\* exception of the provider.
C17_EtfFailureCaught ==
    (Evaluated /\ EtfRaises(inp.etf)) =>
        /\ res.loc.etf_accelerator = "unknown"
        /\ res.loc.etf_net_flow = None
        /\ res.loc.etf_aum = None
        /\ res.loc.state \in MarketState
        /\ res.outcome = ConstructValidationLayer

\* get_etf_net_flow_history raises after the snapshot gave a net flow and an AUM
C17_HistoryFetchRaises ==
    /\ Evaluated
    /\ inp.etf.fails = "history" /\ inp.etf.net_flow.some /\ inp.etf.aum.some
    /\ res.loc.etf_accelerator = "unknown"
    /\ res.loc.etf_net_flow = None /\ res.loc.etf_aum = None

\* _calculate_etf_accelerator has been called on its own
EtfCalled == args.method = "_calculate_etf_accelerator"

\* the snapshot and the history arrive without an exception, with a net flow
EtfDataArrives == args.etf.fails = "none" /\ args.etf.net_flow.some

\* C18: with the current net flow available and a history that is absent or
\* shorter than 7 days, the status comes from the current day's flow alone:
\* |net_flow| < $10M -> neutral; otherwise net_flow > 0 -> tailwind, else
\* headwind.
C18_SingleDayHeuristic ==
    (EtfCalled /\ EtfDataArrives /\ Len(args.etf.history) < 7) =>
        LET net_flow == args.etf.net_flow.v
        IN  /\ (-10 < net_flow /\ net_flow < 10) => ret.etf_accelerator = "neutral"
            /\ net_flow >= 10 => ret.etf_accelerator = "tailwind"
            /\ net_flow =< -10 => ret.etf_accelerator = "headwind"

\* a current flow of exactly $10M over a 6-day history of outflows
C18_ExactlyTenMillion ==
    /\ EtfCalled /\ EtfDataArrives
    /\ args.etf.history = Rep(-30, 6)
    /\ args.etf.net_flow.v = 10
    /\ ret.etf_accelerator = "tailwind"

\* the days of a history whose flow satisfies Test
DaysWhere(history, Test(_)) == Cardinality({ i \in DOMAIN history : Test(history[i]) })

\* the indices of the last 7 days
LastWeek(history) == { i \in DOMAIN history : i > Len(history) - 7 }

\* the sum of the flows of the days in S
RECURSIVE FlowSum(_, _)
FlowSum(history, S) ==
    IF S = {} THEN 0
    ELSE LET i == CHOOSE j \in S : TRUE IN history[i] + FlowSum(history, S \ {i})

\* positive days >= 14, their fraction >= 0.70, and the last 7 days all
\* positive or of positive sum
TailwindCondition(history) ==
    /\ DaysWhere(history, IsPositive) >= 14
    /\ DaysWhere(history, IsPositive) * 100 >= 70 * Len(history)
    /\ \/ \A i \in LastWeek(history) : history[i] > 0
       \/ FlowSum(history, LastWeek(history)) > 0

\* the same on negative days
HeadwindCondition(history) ==
    /\ DaysWhere(history, IsNegative) >= 14
    /\ DaysWhere(history, IsNegative) * 100 >= 70 * Len(history)
    /\ \/ \A i \in LastWeek(history) : history[i] < 0
       \/ FlowSum(history, LastWeek(history)) < 0

\* the status is decided on a history of 7 days or more
EtfTrendDecided ==
    EtfCalled /\ EtfDataArrives /\ Len(args.etf.history) >= 7 /\ ~args.etf.malformed

\* C19: with 7 days of history or more the status is tailwind whenever the
\* tailwind condition holds and headwind whenever the headwind condition
\* holds, whatever the sign of the current day's flow; the two conditions
\* never hold together.
C19_TrendRules ==
    EtfTrendDecided =>
        /\ TailwindCondition(args.etf.history) => ret.etf_accelerator = "tailwind"
        /\ HeadwindCondition(args.etf.history) => ret.etf_accelerator = "headwind"
        /\ ~(TailwindCondition(args.etf.history) /\ HeadwindCondition(args.etf.history))

\* 14 positive days of 20, the last 14, and an outflow on the current day
C19_TailwindAgainstCurrentDay ==
    /\ EtfTrendDecided
    /\ args.etf.history = Rep(-30, 6) \o Rep(2, 14)
    /\ args.etf.net_flow.v = -20
    /\ ret.etf_accelerator = "tailwind"

\* a 20-day history whose mean flow is $2M
TwentyDaysMeanTwo ==
    /\ EtfTrendDecided
    /\ Len(args.etf.history) = 20
    /\ FlowSum(args.etf.history, DOMAIN args.etf.history) = 2 * 20

\* C20 as stated: every 20-day history whose mean flow is $2M gives neutral.
C20_MeanTwoIsNeutral ==
    TwentyDaysMeanTwo => ret.etf_accelerator = "neutral"

\* C20: a 20-day history whose mean flow is $2M gives neutral unless the
\* tailwind or the headwind condition holds on it, which give tailwind and
\* headwind.
C20_MeanTwoWithoutTrendIsNeutral ==
    TwentyDaysMeanTwo =>
        /\ TailwindCondition(args.etf.history) => ret.etf_accelerator = "tailwind"
        /\ HeadwindCondition(args.etf.history) => ret.etf_accelerator = "headwind"
        /\ (~TailwindCondition(args.etf.history) /\ ~HeadwindCondition(args.etf.history)) =>
               ret.etf_accelerator = "neutral"

\* 13 positive days of 20 with mean $2M, and an inflow of $20M on the current day
C20_MixedDaysMeanTwo ==
    /\ TwentyDaysMeanTwo
    /\ args.etf.history = Rep(2, 6) \o Rep(-5, 7) \o Rep(9, 7)
    /\ args.etf.net_flow.v = 20
    /\ ret.etf_accelerator = "neutral"

\* _calculate_slope has been called on its own
SlopeCalled == args.method = "_calculate_slope"

\* C21: for every series (empty, one value, with zero or negative values,
\* constant) and every window size the slope estimator returns a number; no
\* exception leaves it.
C21_NoExceptionEscapes ==
    SlopeCalled => ret.raised = "none"

\* an empty series with a window of 0: the division of line 295 is by 0
C21_EmptyWindowDividesByZero ==
    /\ SlopeCalled
    /\ args.values = << >> /\ args.periods = 0
    /\ ret.raised = "ZeroDivisionError"

\* a series of at least two positive values, each the one before it times the
\* same factor above 1
IncreasingExponential(s) ==
    /\ Len(s) >= 2
    /\ \A i \in DOMAIN s : s[i] > 0
    /\ \A i \in 1..(Len(s) - 1) :
           /\ LogUnits(s[i + 1]) > LogUnits(s[i])
           /\ LogUnits(s[i + 1]) - LogUnits(s[i]) = LogUnits(s[2]) - LogUnits(s[1])

\* a non-empty series of one positive value repeated
ConstantPositive(s) ==
    /\ Len(s) >= 1
    /\ \A i \in DOMAIN s : s[i] > 0 /\ s[i] = s[1]

\* C22: on a strictly increasing exponential series of positive values, with
\* a window of at least 2 and at most the length of the series, the slope
\* estimator returns a positive value; on a constant positive series, with a
\* window that is not negative, it returns exactly 0.
C22_PositiveFromTwoValues ==
    SlopeCalled =>
        /\ (IncreasingExponential(args.values) /\ args.periods >= 2
                /\ Len(args.values) >= args.periods)
               => (ret.raised = "none" /\ RLt(Zero, ret.slope))
        /\ (ConstantPositive(args.values) /\ args.periods >= 0)
               => (ret.raised = "none" /\ ret.slope = Zero)

\* the growing series 4, 50, 625 with a window of 3: the slope is one grid
\* step per day
C22_ThreeGrowingValues ==
    /\ SlopeCalled
    /\ args.values = << 4, 50, 625 >> /\ args.periods = 3
    /\ ret.raised = "none" /\ ret.slope = One

\* C22 as stated, over the calls that return: every window up to the length of
\* the series gives a positive slope on a strictly increasing exponential
\* series
C22_PositiveForEveryWindow ==
    (SlopeCalled /\ ret.raised = "none") =>
        /\ (IncreasingExponential(args.values) /\ Len(args.values) >= args.periods)
               => RLt(Zero, ret.slope)
        /\ ConstantPositive(args.values) => ret.slope = Zero

\* the list `after` is the list `before` with the one value v appended, cut to
\* its newest MaxHistorySize entries
AppendedOnce(before, after, v) ==
    after = LastN(Append(before, v), Min(Len(before) + 1, MaxHistorySize))

\* C23: a call of evaluate() that obtains its five scalars appends exactly one
\* stablecoin value and one total-cap value to the HistoryCache, and the cache
\* its funding classification reads is the cache after that append, with the
\* call's own values as its newest entries.
C23_AppendsOnceBeforeFunding ==
    [][ (calls' = calls + 1 /\ inp'.fail = 0) =>
            /\ AppendedOnce(CacheStable, CacheStable', inp'.stable)
            /\ AppendedOnce(CacheTotal, CacheTotal', inp'.total)
            /\ res'.loc.readStable = CacheStable'
            /\ res'.loc.readTotal = CacheTotal'
            /\ res'.loc.readStable[Len(res'.loc.readStable)] = inp'.stable
            /\ res'.loc.readTotal[Len(res'.loc.readTotal)] = inp'.total ]_vars

\* the thirty-first call that obtained its scalars: the full cache its funding
\* classification read ends with its own caps
C23_OwnValuesNewestInFullCache ==
    /\ Evaluated
    /\ Len(log) = MaxHistorySize + 1
    /\ Len(res.loc.readStable) = MaxHistorySize
    /\ res.loc.readStable[MaxHistorySize] = inp.stable
    /\ res.loc.readTotal[MaxHistorySize] = inp.total

\* the positive values among the last `periods` values of the call
ValidOfCall == Positive(PySuffix(args.values, args.periods))

\* C24: the slope estimator takes the last `periods` values and drops those
\* that are not positive; whenever at least 2 valid values remain, be it
\* because the series is shorter than `periods` or because values were
\* dropped, it returns the regression on them, and it returns 0 for lack of
\* data only when fewer than 2 remain.
C24_RegressionWheneverTwoValid ==
    (SlopeCalled /\ args.periods >= 1 /\ ret.raised = "none") =>
        ret.slope = IF Len(ValidOfCall) < 2 THEN Zero ELSE Regression(ValidOfCall)

\* the series 4, 50 with a window of 3: two valid values, and the slope is 0
C24_ShortSeriesGivesZero ==
    /\ SlopeCalled
    /\ args.values = << 4, 50 >> /\ args.periods = 3
    /\ ret.raised = "none" /\ ret.slope = Zero
    /\ Regression(ValidOfCall) = One

\* the days of the first half (the first len // 2) and of the second half
FirstHalf(history) == { i \in DOMAIN history : i <= Len(history) \div 2 }
SecondHalf(history) == DOMAIN history \ FirstHalf(history)

\* at least 14 days; the mean of the first half is negative, the mean of the
\* second half is greater and its magnitude is under half that of the first
OutflowDecelerates(history) ==
    LET first == FlowSum(history, FirstHalf(history))
        second == FlowSum(history, SecondHalf(history))
        nf == Cardinality(FirstHalf(history))
        ns == Cardinality(SecondHalf(history))
    IN  /\ Len(history) >= 14
        /\ first < 0
        /\ second * nf > first * ns
        /\ 2 * Abs(second) * nf < Abs(first) * ns

\* C25: with at least 14 days of history and neither the tailwind nor the
\* headwind condition met, a negative first-half mean and a second-half mean
\* that is greater and under half its magnitude give neutral, before the
\* |mean flow| check and the current-day tie-break: whatever the mean flow and
\* the sign of the current day.
C25_DecelerationIsNeutral ==
    (/\ EtfTrendDecided
     /\ ~TailwindCondition(args.etf.history)
     /\ ~HeadwindCondition(args.etf.history)
     /\ OutflowDecelerates(args.etf.history))
        => ret.etf_accelerator = "neutral"

\* 13 days of -$30M and 7 days of 0, mean -$19.5M, and a current day of +$20M
C25_DeceleratingWithLargeMean ==
    /\ EtfTrendDecided
    /\ args.etf.history = Rep(-30, 13) \o Rep(0, 7)
    /\ ~HeadwindCondition(args.etf.history)
    /\ OutflowDecelerates(args.etf.history)
    /\ Abs(FlowSum(args.etf.history, DOMAIN args.etf.history)) >= 10 * Len(args.etf.history)
    /\ args.etf.net_flow.v = 20
    /\ ret.etf_accelerator = "neutral"

\* _determine_trend_with_slope has been called on its own
TrendCalled == args.method = "_determine_trend_with_slope"

\* C26: the trend label depends neither on a slope, nor on MA50, nor on the
\* amount of history: the trend classifier returns BULLISH if and only if
\* price > MA200, and BEARISH otherwise.
C26_TrendIsPriceAboveMA200 ==
    TrendCalled =>
        /\ ret.trend = "BULLISH" <=> args.btc_price > args.ma200
        /\ ret.trend = "BEARISH" <=> ~(args.btc_price > args.ma200)

\* the price above a falling MA200, with MA50 below MA200: BULLISH
C26_AboveFallingMA200 ==
    /\ TrendCalled
    /\ args.btc_price > args.ma200 /\ args.ma50 < args.ma200
    /\ RLt(ret.ma200_slope, Zero)
    /\ ret.trend = "BULLISH"

\* C27: whenever at least one of the two funding slopes is non-zero the funding
\* label depends on the total-cap slope alone: OFFENSIVE if and only if the
\* total slope is > 0.  A total slope of exactly 0 with a non-zero stablecoin
\* slope gives DEFENSIVE.
C27_FundingFollowsTotalSlope ==
    (Evaluated /\ (res.loc.fund_stablecoin_slope # Zero \/ res.loc.fund_total_slope # Zero)) =>
        /\ res.loc.path = "slopes"
        /\ res.loc.funding = "OFFENSIVE" <=> RLt(Zero, res.loc.fund_total_slope)
        /\ res.loc.funding = "DEFENSIVE" <=> ~RLt(Zero, res.loc.fund_total_slope)

\* the stablecoin cap rises while the total cap stays: DEFENSIVE
C27_FlatTotalRisingStablecoin ==
    /\ Evaluated
    /\ res.loc.fund_total_slope = Zero
    /\ RLt(Zero, res.loc.fund_stablecoin_slope)
    /\ res.loc.funding = "DEFENSIVE"

\* C28: a call of evaluate() that fails because a required current scalar is
\* unavailable leaves the HistoryCache as it was: both lists unchanged in
\* length and content.
C28_FailedCallLeavesCache ==
    [][ (calls' = calls + 1 /\ inp'.fail # 0) =>
            /\ res'.outcome = "DataUnavailable"
            /\ stableCaps' = stableCaps
            /\ totalCaps' = totalCaps ]_vars

\* the stablecoin cap, the last of the five scalars, is unavailable in a call
\* that follows calls that appended: the cache holds the caps of those calls
C28_LastScalarFailsOnFilledCache ==
    /\ res.outcome = "DataUnavailable"
    /\ inp.fail = 5
    /\ Len(log) >= 2
    /\ HoldsRecent(CacheStable, CacheTotal)

\* C29: the stablecoin_slope and total_slope reported in the metadata of a
\* result equal the two slopes the funding classifier used to decide the
\* funding label of that result.
C29_MetadataSlopesAreFundingSlopes ==
    Evaluated =>
        /\ res.loc.stablecoin_slope = res.loc.fund_stablecoin_slope
        /\ res.loc.total_slope = res.loc.fund_total_slope

\* an external history of 7 points: the funding classifier takes its slopes
\* from it, and the slopes for the metadata, which need 10 points, are 0
C29_SevenExternalPoints ==
    /\ Evaluated
    /\ inp.ext = ExtSeven
    /\ res.loc.path = "slopes" /\ res.loc.fund_source = "external"
    /\ res.loc.fund_stablecoin_slope # Zero /\ res.loc.fund_total_slope # Zero
    /\ res.loc.stablecoin_slope = Zero /\ res.loc.total_slope = Zero

\* what the n-th call does when the external cap history is absent: up to the
\* sixth the 8.0 ratio threshold decides; from the seventh the cache read holds
\* 7 points or more, its slopes are computed, and they decide the label
\* whenever either is non-zero
RatioThenCacheSlopes(n) ==
    /\ n <= 6 =>
           /\ res.loc.path = "ratio"
           /\ res.loc.funding = RatioFallback(StablecoinRatio(inp.stable, inp.total))
    /\ n >= 7 =>
           /\ Len(res.loc.readStable) >= 7
           /\ res.loc.fund_source = "cache"
           /\ res.loc.fund_stablecoin_slope
                  = CalculateSlope(res.loc.readStable, Min(10, Len(res.loc.readStable)))
           /\ res.loc.fund_total_slope
                  = CalculateSlope(res.loc.readTotal, Min(10, Len(res.loc.readTotal)))
           /\ (res.loc.fund_stablecoin_slope # Zero \/ res.loc.fund_total_slope # Zero)
                  => /\ res.loc.path = "slopes"
                     /\ res.loc.funding = SlopeTable(res.loc.fund_stablecoin_slope,
                                                     res.loc.fund_total_slope)

\* C30: starting from an empty HistoryCache with the external cap history
\* absent in every call, each of the first six calls of evaluate() that obtain
\* their five scalars classifies funding by the 8.0 ratio threshold, and from
\* the seventh such call onward the cache holds at least 7 points, so the cache
\* slopes are computed and decide the label whenever either is non-zero.
C30_SeventhAppendingCallUsesCache ==
    (Evaluated /\ ~inp.ext.present) => RatioThenCacheSlopes(Len(log))

\* the seventh call with its scalars, after the caps changed: the label comes
\* from the slopes of the 7 cache points
C30_SeventhCallOnSlopes ==
    /\ Evaluated /\ ~inp.ext.present
    /\ Len(log) = 7
    /\ Len(res.loc.readStable) = 7
    /\ res.loc.path = "slopes"
    /\ res.loc.fund_source = "cache"

\* C30 as stated: the calls counted are all calls of evaluate() of the process
C30_SeventhCallUsesCache ==
    (Evaluated /\ ~inp.ext.present) => RatioThenCacheSlopes(calls)

====
